---- MODULE Spec2Model ----
(***************************************************************************)
(* A model of the JCL analysis and extraction engine (src/larkJCL_DB.py):  *)
(* the JCLPreprocessor (symbol table, procedure expansion, in-stream       *)
(* payload capture), the JCLParserManager step assembler and the           *)
(* DatabaseManager persistence adapter.                                    *)
(*                                                                         *)
(* Text is modelled as sequences of one-character strings, so that         *)
(* str.replace, startswith and the regular expressions of the source work  *)
(* on characters.  A card is a record of its label, operation and operand  *)
(* tokens; the texts inside the tokens are character sequences.            *)
(***************************************************************************)
EXTENDS Integers, Sequences, FiniteSets, TLC

VARIABLES
    \* ---- JCLPreprocessor (and its environment)
    system_type,       \* config["SYSTEM"]
    files,             \* the file system: <<root, member>> -> lines
    lib_paths,         \* self.lib_paths
    symtabs,           \* the heap of dict objects used as symbol tables
    symbol_table,      \* self.symbol_table: a reference into symtabs
    procedure_map,     \* self.procedure_map
    stack,             \* the call stack of process_line_list activations
    res,               \* what preprocess_file(path) returned to __main__
    scope,             \* history: symbol tables around the last finished expansion
    \* ---- JCLParserManager
    results_list,      \* the argument of process_results
    pos,               \* index of the next element of results_list
    proc_stack,        \* proc_stack of process_results
    steps,             \* self.steps
    current_step,      \* self.current_step: 0 (None) or an index into steps
    \* ---- DatabaseManager
    db,                \* the committed PROJECTS, STEPS, DATA_ALLOCATIONS rows
    tx,                \* the open transaction of insert_project_data
    runs,              \* history: how many times the program was started
    \* ---- apply_symbolics on its own
    sym_stmt, sym_once, sym_twice,
    \* ---- control
    pc

vars == <<system_type, files, lib_paths, symtabs, symbol_table, procedure_map,
          stack, res, scope, results_list, pos, proc_stack, steps, current_step,
          db, tx, runs, sym_stmt, sym_once, sym_twice, pc>>

preVars == <<system_type, files, lib_paths, symtabs, symbol_table, procedure_map,
             stack, res, scope>>
asmVars == <<results_list, pos, proc_stack, steps, current_step>>
dbVars  == <<db, tx, runs>>
symVars == <<sym_stmt, sym_once, sym_twice>>

\* None, for a value that is otherwise a text or a path.
None == <<"None">>

-----------------------------------------------------------------------------
(* Character sequences.                                                    *)

StartsWith(s, p) == Len(p) <= Len(s) /\ SubSeq(s, 1, Len(p)) = p

EndsWith(s, p) == Len(p) <= Len(s) /\ SubSeq(s, Len(s) - Len(p) + 1, Len(s)) = p

Contains(s, p) == \E i \in 1..(Len(s) - Len(p) + 1) : SubSeq(s, i, i + Len(p) - 1) = p

\* str.replace(pat, rep): the leftmost occurrences, left to right, not overlapping.
RECURSIVE Replace(_, _, _)
Replace(s, pat, rep) ==
    IF Len(s) < Len(pat) \/ pat = <<>> THEN s
    ELSE IF SubSeq(s, 1, Len(pat)) = pat
         THEN rep \o Replace(SubSeq(s, Len(pat) + 1, Len(s)), pat, rep)
         ELSE <<Head(s)>> \o Replace(Tail(s), pat, rep)

\* str.strip("'"): every leading and trailing quote is removed.
RECURSIVE StripQuotes(_)
StripQuotes(s) ==
    IF s = <<>> THEN s
    ELSE IF Head(s) = "'" THEN StripQuotes(Tail(s))
    ELSE IF s[Len(s)] = "'" THEN StripQuotes(SubSeq(s, 1, Len(s) - 1))
    ELSE s

RECURSIVE Flatten(_)
Flatten(ss) == IF ss = <<>> THEN <<>> ELSE Head(ss) \o Flatten(Tail(ss))

RECURSIVE SeqsUpTo(_, _)
SeqsUpTo(S, n) ==
    IF n = 0 THEN {<<>>}
    ELSE LET shorter == SeqsUpTo(S, n - 1)
         IN  shorter \cup {Append(s, x) : s \in {t \in shorter : Len(t) = n - 1}, x \in S}

Range(s) == {s[i] : i \in 1..Len(s)}

Max(S) == CHOOSE x \in S : \A y \in S : y <= x

-----------------------------------------------------------------------------
(* The symbol table: a Python dict, which keeps its keys in insertion      *)
(* order.  It is a sequence of [name, val] entries with distinct names.    *)

DictHas(d, n) == \E i \in 1..Len(d) : d[i].name = n

DictGet(d, n) == d[CHOOSE i \in 1..Len(d) : d[i].name = n].val

\* d[n] = v: an existing key keeps its place, a new key goes last.
DictSet(d, n, v) ==
    IF DictHas(d, n)
    THEN [i \in 1..Len(d) |-> IF d[i].name = n THEN [name |-> n, val |-> v] ELSE d[i]]
    ELSE Append(d, [name |-> n, val |-> v])

\* d.update(e)
RECURSIVE DictUpdate(_, _)
DictUpdate(d, e) ==
    IF e = <<>> THEN d ELSE DictUpdate(DictSet(d, Head(e).name, Head(e).val), Tail(e))

DictKeys(d) == [i \in 1..Len(d) |-> d[i].name]

\* The keys of length n, then those of length n-1, ...: in insertion order within a length.
RECURSIVE KeysFromLen(_, _)
KeysFromLen(keys, n) ==
    IF n = 0 THEN <<>>
    ELSE SelectSeq(keys, LAMBDA k : Len(k) = n) \o KeysFromLen(keys, n - 1)

RECURSIVE KeysUpToLen(_, _)
KeysUpToLen(keys, n) ==
    IF n = 0 THEN <<>>
    ELSE KeysUpToLen(keys, n - 1) \o SelectSeq(keys, LAMBDA k : Len(k) = n)

\* A variant of SortedSyms: the shortest names first.
SortedSymsAscending(d) ==
    IF d = <<>> THEN <<>>
    ELSE KeysUpToLen(DictKeys(d), Max({Len(d[i].name) : i \in 1..Len(d)}))

\* sorted(self.symbol_table.keys(), key=len, reverse=True): the sort is stable.
SortedSyms(d) ==
    IF d = <<>> THEN <<>>
    ELSE KeysFromLen(DictKeys(d), Max({Len(d[i].name) : i \in 1..Len(d)}))

RECURSIVE ReplaceFirst(_, _, _)
ReplaceFirst(s, pat, rep) ==
    IF Len(s) < Len(pat) \/ pat = <<>> THEN s
    ELSE IF SubSeq(s, 1, Len(pat)) = pat
         THEN rep \o SubSeq(s, Len(pat) + 1, Len(s))
         ELSE <<Head(s)>> \o ReplaceFirst(Tail(s), pat, rep)

\* A variant of SubstituteSym: str.replace(old, new, 1), the first occurrence only.
SubstituteSymFirstOnly(text, sym, val) ==
    ReplaceFirst(
        ReplaceFirst(
            ReplaceFirst(text, <<"&">> \o sym \o <<".", ".">>, val \o <<".">>),
            <<"&">> \o sym \o <<".">>, val),
        <<"&">> \o sym, val)

\* One turn of the loop of apply_symbolics: the three forms of one name.
SubstituteSym(text, sym, val) ==
    Replace(
        Replace(
            Replace(text, <<"&">> \o sym \o <<".", ".">>, val \o <<".">>),
            <<"&">> \o sym \o <<".">>, val),
        <<"&">> \o sym, val)

RECURSIVE SubstituteAll(_, _, _)
SubstituteAll(text, d, syms) ==
    IF syms = <<>> THEN text
    ELSE SubstituteAll(SubstituteSym(text, Head(syms), DictGet(d, Head(syms))), d, Tail(syms))

\* apply_symbolics on a text, under the symbol table d.
ApplySymbolics(d, text) == SubstituteAll(text, d, SortedSyms(d))

-----------------------------------------------------------------------------
(* Cards and statements.  A card is one line of a deck: its label, its     *)
(* operation, its operand field as comma-separated tokens, and whether the *)
(* operand field ends with a comma.  A line that is not a JCL statement    *)
(* (data, a comment, an end marker) has the operation TEXT and its text.   *)

Arg(k, n, v) == [k |-> k, n |-> n, v |-> v]

Card(label, op, args) ==
    [label |-> label, op |-> op, args |-> args, cont |-> FALSE, text |-> <<>>]

TextCard(t) == [label |-> <<>>, op |-> "TEXT", args |-> <<>>, cont |-> FALSE, text |-> t]

NoStmt == Card(<<>>, "", <<>>)

\* The characters of an operation or keyword.
Chars(w) ==
    CASE w = "EXEC"    -> <<"E", "X", "E", "C">>
      [] w = "DD"      -> <<"D", "D">>
      [] w = "SET"     -> <<"S", "E", "T">>
      [] w = "PROC"    -> <<"P", "R", "O", "C">>
      [] w = "PEND"    -> <<"P", "E", "N", "D">>
      [] w = "PGM"     -> <<"P", "G", "M">>
      [] w = "PARM"    -> <<"P", "A", "R", "M">>
      [] w = "DSN"     -> <<"D", "S", "N">>
      [] w = "DLM"     -> <<"D", "L", "M">>
      [] w = "SYSOUT"  -> <<"S", "Y", "S", "O", "U", "T">>
      [] w = "MEMBER"  -> <<"M", "E", "M", "B", "E", "R">>
      [] w = "ORDER"   -> <<"O", "R", "D", "E", "R">>
      [] w = "INCLUDE" -> <<"I", "N", "C", "L", "U", "D", "E">>
      [] w = "JCLLIB"  -> <<"J", "C", "L", "L", "I", "B">>
      [] w = "JOB"     -> <<"J", "O", "B">>
      [] w = "IF"      -> <<"I", "F">>
      [] w = "THEN"    -> <<"T", "H", "E", "N">>
      [] w = "ELSE"    -> <<"E", "L", "S", "E">>
      [] w = "ENDIF"   -> <<"E", "N", "D", "I", "F">>
      [] w = "DATA"    -> <<"D", "A", "T", "A">>
      [] w = "DUMMY"   -> <<"D", "U", "M", "M", "Y">>
      [] OTHER         -> <<w>>

\* The tokens written NAME=VALUE, and the name of each.
HasEq(a) == a.k \notin {"POS", "STAR", "DATA", "DUMMY", "TXT"}

ArgName(a) == IF a.k = "KW" THEN a.n ELSE Chars(a.k)

\* [A-Z$#@] and [A-Z0-9$#@] of the regular expressions, over the characters in use.
Digits == {"0", "1", "2", "3", "4", "5", "6", "7", "8", "9"}

NameStart == {"A", "B", "C", "D", "E", "F", "G", "H", "I", "J", "K", "L", "M", "N",
              "O", "P", "Q", "R", "S", "T", "U", "V", "W", "X", "Y", "Z", "$", "#", "@"}

NameChar == NameStart \cup Digits

\* The text ([A-Z$#@][A-Z0-9$#@]{0,7}) matches at the start of v: <<>> when it does not match.
RECURSIVE NameRun(_, _)
NameRun(v, n) ==
    IF n = 0 \/ v = <<>> \/ Head(v) \notin NameChar THEN <<>>
    ELSE <<Head(v)>> \o NameRun(Tail(v), n - 1)

LeadName(v) == IF v = <<>> \/ Head(v) \notin NameStart THEN <<>> ELSE NameRun(v, 8)

-----------------------------------------------------------------------------
(* clean_line, strip_jcl_comment and the reassembly of continued cards.    *)

\* clean_line returns None: a //* comment, a /* marker, a bare //.
IsDropped(card) ==
    /\ card.op = "TEXT"
    /\ \/ StartsWith(card.text, <<"/", "/", "*">>)
       \/ StartsWith(card.text, <<"/", "*">>)
       \/ card.text = <<"/", "/">>

\* The first two characters of the raw line.
RawHead(card) ==
    IF card.op = "TEXT" THEN SubSeq(card.text, 1, IF Len(card.text) < 2 THEN Len(card.text) ELSE 2)
    ELSE <<"/", "/">>

\* What a card adds to the statement under reassembly when is_continuation holds:
\* the slashes and the blanks are stripped and the text up to the first blank is kept.
ContinuationTokens(card) ==
    IF card.op = "TEXT" THEN <<Arg("TXT", <<>>, card.text)>>
    ELSE IF card.label # <<>> THEN <<Arg("TXT", <<>>, card.label)>>
    ELSE IF card.op # "" THEN <<Arg("TXT", <<>>, Chars(card.op))>>
    ELSE card.args

\* cleaned_content.endswith(",")
EndsWithComma(card, continuing) ==
    IF card.op = "TEXT" THEN EndsWith(card.text, <<",">>)
    ELSE IF continuing /\ (card.label # <<>> \/ card.op # "") THEN FALSE
    ELSE card.cont

\* A variant of Reassemble: current_statement = cleaned_content.
ReassembleRestart(cur, card, continuing) == [card EXCEPT !.cont = FALSE]

\* current_statement += cleaned_content
Reassemble(cur, card, continuing) ==
    IF continuing
    THEN [cur EXCEPT !.args = cur.args \o ContinuationTokens(card)]
    ELSE [card EXCEPT !.cont = FALSE]

\* apply_symbolics on a whole statement: the references stand in the operand values.
ApplyStmt(d, s) ==
    [s EXCEPT !.args = [i \in 1..Len(s.args) |->
                           [s.args[i] EXCEPT !.v = ApplySymbolics(d, s.args[i].v)]],
              !.text = ApplySymbolics(d, s.text)]

-----------------------------------------------------------------------------
(* The regular expressions and tests that classify a statement.            *)

AdminOps == {"JOB", "CNTL", "ENDCNTL", "EXPORT", "NOTIFY", "OUTPUT", "SCHEDULE", "JCLLIB", "SET"}

CondOps == {"IF", "THEN", "ELSE", "ENDIF"}

\* re_proc_start: a label, blanks, PROC.
IsProcStart(s) == s.op = "PROC" /\ s.label # <<>>

\* re_pend: no label, PEND.
IsPend(card) == card.op = "PEND" /\ card.label = <<>>

\* "JCLLIB " in stmt.upper()
IsJcllib(s) == s.op = "JCLLIB" /\ s.args # <<>>

\* " SET " in stmt.upper() or stmt.startswith("// SET ")
IsSet(s) == s.op = "SET" /\ s.args # <<>>

\* re_job_admin
IsJobAdmin(s) == s.op \in AdminOps

\* re_cond: the keyword may follow the label with no blank between (\s*), so a label
\* that ends with one of the keywords matches too.
IsCond(s) ==
    \/ s.op \in CondOps
    \/ s.op # "TEXT" /\ \E w \in CondOps :
         /\ EndsWith(s.label, Chars(w))
         /\ LET pre == SubSeq(s.label, 1, Len(s.label) - Len(Chars(w)))
            IN  pre = <<>> \/ Head(pre) \in NameStart

\* re_include: no label, INCLUDE, MEMBER=name.  The member name, or <<>>.
IncludeMember(s) ==
    IF s.op = "INCLUDE" /\ s.label = <<>> /\ s.args # <<>> /\ s.args[1].k = "MEMBER"
    THEN LeadName(s.args[1].v)
    ELSE <<>>

\* re_exec: EXEC, then an optional PGM= or PROC=, then a name.  When the value after
\* PGM= or PROC= does not start a name, the keyword itself is taken as the name.
ExecMatch(s) ==
    IF s.op # "EXEC" \/ s.args = <<>> THEN [ok |-> FALSE, pgm |-> FALSE, name |-> <<>>]
    ELSE LET a == s.args[1]
         IN  IF a.k \in {"PGM", "PROC"} /\ LeadName(a.v) # <<>>
             THEN [ok |-> TRUE, pgm |-> a.k = "PGM", name |-> LeadName(a.v)]
             ELSE IF a.k = "POS"
             THEN [ok |-> LeadName(a.v) # <<>>, pgm |-> FALSE, name |-> LeadName(a.v)]
             ELSE IF a.k = "TXT"
             THEN [ok |-> FALSE, pgm |-> FALSE, name |-> <<>>]
             ELSE [ok |-> TRUE, pgm |-> FALSE, name |-> LeadName(ArgName(a))]

\* re_dd_instream: DD, then * or the letters DATA.
IsInstreamDD(s) ==
    /\ s.op = "DD" /\ s.args # <<>>
    /\ \/ s.args[1].k \in {"STAR", "DATA"}
       \/ s.args[1].k = "KW" /\ StartsWith(s.args[1].n, Chars("DATA"))

\* DLM=([^\s,]{2}) with the quotes of the two characters removed; "/*" when absent.
DefaultDlm == <<"/", "*">>

NoQuotes(t) == SelectSeq(t, LAMBDA c : c \notin {"'", "\""})

Delimiter(s) ==
    LET at == {i \in 1..Len(s.args) : s.args[i].k = "DLM" /\ Len(s.args[i].v) >= 2}
    IN  IF at = {} THEN DefaultDlm
        ELSE NoQuotes(SubSeq(s.args[CHOOSE i \in at : \A j \in at : i <= j].v, 1, 2))

\* The test that ends the payload loop at the raw line of card c.
EndsPayload(dlm, c) ==
    \/ dlm = DefaultDlm /\ RawHead(c) \in {<<"/", "/">>, <<"/", "*">>}
    \/ dlm # DefaultDlm /\ StartsWith(RawHead(c), dlm)

-----------------------------------------------------------------------------
(* resolve_path, parse_params, update_symbols, update_lib_paths.           *)

\* resolve_path over the library list: a path <<root, member>>, or None.
RECURSIVE ResolveIn(_, _, _, _)
ResolveIn(paths, member, sys, fs) ==
    IF paths = <<>> THEN None
    ELSE IF Head(paths) = "" THEN ResolveIn(Tail(paths), member, sys, fs)
    ELSE IF sys = "Z" THEN <<Head(paths), member>>
    ELSE IF <<Head(paths), member>> \in DOMAIN fs THEN <<Head(paths), member>>
    ELSE ResolveIn(Tail(paths), member, sys, fs)

ResolvePath(member) == ResolveIn(lib_paths, member, system_type, files)

\* open(path) succeeds
Readable(path) == path # None /\ path \in DOMAIN files

\* The text after the first occurrence of p in s (s.split(p, 1)[1]).
AfterFirst(s, p) ==
    LET i == CHOOSE j \in 1..(Len(s) - Len(p) + 1) :
                 /\ SubSeq(s, j, j + Len(p) - 1) = p
                 /\ \A k \in 1..(j - 1) : SubSeq(s, k, k + Len(p) - 1) # p
    IN  SubSeq(s, i + Len(p), Len(s))

\* str.strip() of blanks
RECURSIVE StripBlanks(_)
StripBlanks(s) ==
    IF s = <<>> THEN s
    ELSE IF Head(s) = " " THEN StripBlanks(Tail(s))
    ELSE IF s[Len(s)] = " " THEN StripBlanks(SubSeq(s, 1, Len(s) - 1))
    ELSE s

\* parse_params on comma-separated tokens: an entry for each token with an "=".
\* lead is the text that stands before the first token in the string parsed.
ParseParams(args, lead) ==
    LET eq == SelectSeq([i \in 1..Len(args) |-> [i |-> i, a |-> args[i]]],
                        LAMBDA x : HasEq(x.a))
    IN  [j \in 1..Len(eq) |->
            [name |-> StripBlanks((IF eq[j].i = 1 THEN lead ELSE <<>>) \o ArgName(eq[j].a)),
             val  |-> StripQuotes(StripBlanks(eq[j].a.v))]]

\* The defaults of a PROC header: header.upper().split("PROC", 1)[1] is parsed, and the
\* first PROC of the header is in the label when the label holds these letters.
HeaderDefaults(h) ==
    IF ~(h.op = "PROC" /\ h.args # <<>>) THEN <<>>
    ELSE IF Contains(h.label, Chars("PROC"))
         THEN ParseParams(h.args, AfterFirst(h.label, Chars("PROC")) \o <<" ">> \o Chars("PROC") \o <<" ">>)
         ELSE ParseParams(h.args, <<>>)

\* The overrides of an EXEC card: exec_stmt.split("EXEC", 1)[1].strip(), then what
\* follows its first comma or blank.
ExecOverrides(s) ==
    IF Contains(s.label, Chars("EXEC"))
    THEN IF AfterFirst(s.label, Chars("EXEC")) = <<>>
         THEN ParseParams(s.args, <<>>)
         ELSE ParseParams(s.args, Chars("EXEC") \o <<" ">>)
    ELSE ParseParams(Tail(s.args), <<>>)

\* update_symbols: SET\s+([A-Z0-9$#@]{1,8})=([^,\s]+), the first assignment only.
UpdateSymbols(d, s) ==
    IF s.args # <<>> /\ HasEq(s.args[1])
       /\ Len(ArgName(s.args[1])) \in 1..8
       /\ Range(ArgName(s.args[1])) \subseteq NameChar
       /\ s.args[1].v # <<>>
    THEN DictSet(d, ArgName(s.args[1]), StripQuotes(s.args[1].v))
    ELSE d

\* A variant of UpdateLibPaths: the roots of ORDER=(...) go after the list.
UpdateLibPathsAfter(paths, s) ==
    LET at == {i \in 1..Len(s.args) : s.args[i].k = "ORDER"}
    IN  IF at = {} THEN paths
        ELSE paths \o s.args[CHOOSE i \in at : \A j \in at : i <= j].v

\* update_lib_paths: the roots of ORDER=(...) go before the list.
UpdateLibPaths(paths, s) ==
    LET at == {i \in 1..Len(s.args) : s.args[i].k = "ORDER"}
    IN  IF at = {} THEN paths
        ELSE s.args[CHOOSE i \in at : \A j \in at : i <= j].v \o paths

\* A variant of LocalSymbols: local_symbols = self.symbol_table, no copy.
AliasSymbols(heap, ref) == [heap |-> heap, ref |-> ref]

\* copy.deepcopy(self.symbol_table): a new dict object on the heap.
LocalSymbols(heap, ref) == [heap |-> Append(heap, heap[ref]), ref |-> Len(heap) + 1]

-----------------------------------------------------------------------------
(* The statement stream.  The source emits strings: a statement, or one of *)
(* the sentinels "*PROC_START* label=.. proc=..", "*PROC_END*" and         *)
(* "*PAYLOAD* ..".  An element here is a record of its kind; org is        *)
(* history, the place of the card it was emitted for: the index of the     *)
(* card in its deck, after the indices of the cards that invoked the deck. *)

\* The text "*PROC_END*".
EndSentinel == <<"*", "P", "R", "O", "C", "_", "E", "N", "D", "*">>

\* statements.append(stmt).  The stream is a list of strings and process_results tells
\* a sentinel by stmt.startswith: a statement whose text starts with "*PROC_END*" is
\* the same element as the sentinel.
StmtEl(s, org) ==
    IF s.op = "TEXT" /\ StartsWith(s.text, EndSentinel)
    THEN [k |-> "PROC_END", label |-> <<>>, proc |-> <<>>, card |-> NoStmt, org |-> org]
    ELSE [k |-> "STMT", label |-> <<>>, proc |-> <<>>, card |-> s, org |-> org]

ProcStartEl(label, proc, org) ==
    [k |-> "PROC_START", label |-> label, proc |-> proc, card |-> NoStmt, org |-> org]

ProcEndEl(org) == [k |-> "PROC_END", label |-> <<>>, proc |-> <<>>, card |-> NoStmt, org |-> org]

PayloadEl(c, org) == [k |-> "PAYLOAD", label |-> <<>>, proc |-> <<>>, card |-> c, org |-> org]

\* An activation of process_line_list.  kind says who called it: preprocess_file for
\* the entry member ("main") or for an INCLUDE ("include"), or expand_procedure
\* ("proc"), whose locals old_symbols, outer_label and proc_name are kept here;
\* entry is history: the caller's symbol table when the expansion started.
Frame(kind, lines, path) ==
    [kind |-> kind, lines |-> lines, idx |-> 1, statements |-> <<>>, cur |-> NoStmt,
     cont |-> FALSE, old_symbols |-> 0, outer_label |-> <<>>, proc_name |-> <<>>,
     entry |-> <<>>, path |-> path]

NoScope == [set |-> FALSE, before |-> <<>>, inner |-> <<>>, after |-> <<>>]

Top == stack[Len(stack)]

Line == Top.lines[Top.idx]

Table == symtabs[symbol_table]

HasLine == pc = "pre" /\ stack # <<>> /\ Top.idx <= Len(Top.lines)

\* The statement completed by the current card, after apply_symbolics.
StmtNow == ApplyStmt(Table, Reassemble(Top.cur, Line, Top.cont))

Complete == HasLine /\ ~IsDropped(Line) /\ ~EndsWithComma(Line, Top.cont)

Org == Append(Top.path, Top.idx)

SetTop(f) == [stack EXCEPT ![Len(stack)] = f]

\* The loop goes to the next card with an empty statement buffer.
NextCard(f, idx) == [f EXCEPT !.idx = idx, !.cur = NoStmt, !.cont = FALSE]

Expandable(s) ==
    LET m == ExecMatch(s)
    IN  m.ok /\ ~m.pgm /\ (m.name \in DOMAIN procedure_map \/ ResolvePath(m.name) # None)

\* The branch of process_line_list that a complete statement takes.
Dispatch(s) ==
    IF IsProcStart(s) THEN "proc"
    ELSE IF IsJcllib(s) THEN "jcllib"
    ELSE IF IsSet(s) THEN "set"
    ELSE IF IsJobAdmin(s) \/ IsCond(s) THEN "drop"
    ELSE IF IncludeMember(s) # <<>> THEN "include"
    ELSE IF Expandable(s) THEN "exec"
    ELSE IF IsInstreamDD(s) THEN "instream"
    ELSE "emit"

\* The depth of Python calls at which the interpreter raises RecursionError.
RecursionLimit == 4

\* line is None: continue
PreSkip ==
    /\ HasLine /\ IsDropped(Line)
    /\ stack' = SetTop([Top EXCEPT !.idx = @ + 1])
    /\ UNCHANGED <<system_type, files, lib_paths, symtabs, symbol_table, procedure_map,
                   res, scope, asmVars, dbVars, symVars, pc>>

\* ends_with_comma: is_continuing = True; continue
PreContinue ==
    /\ HasLine /\ ~IsDropped(Line) /\ EndsWithComma(Line, Top.cont)
    /\ stack' = SetTop([Top EXCEPT !.idx = @ + 1, !.cont = TRUE,
                                   !.cur = Reassemble(Top.cur, Line, Top.cont)])
    /\ UNCHANGED <<system_type, files, lib_paths, symtabs, symbol_table, procedure_map,
                   res, scope, asmVars, dbVars, symVars, pc>>

\* A PROC header: the raw cards up to the PEND are kept under the name.
PreCaptureProc ==
    /\ Complete /\ Dispatch(StmtNow) = "proc"
    /\ LET pends == {j \in (Top.idx + 1)..Len(Top.lines) : IsPend(Top.lines[j])}
           stop  == IF pends = {} THEN Len(Top.lines) + 1
                    ELSE CHOOSE j \in pends : \A i \in pends : j <= i
       IN  /\ procedure_map' =
                 (StmtNow.label :> [header |-> StmtNow,
                                    body |-> SubSeq(Top.lines, Top.idx + 1, stop - 1)])
                 @@ procedure_map
           /\ stack' = SetTop(NextCard(Top, IF pends = {} THEN stop ELSE stop + 1))
    /\ UNCHANGED <<system_type, files, lib_paths, symtabs, symbol_table,
                   res, scope, asmVars, dbVars, symVars, pc>>

PreJcllib ==
    /\ Complete /\ Dispatch(StmtNow) = "jcllib"
    /\ lib_paths' = UpdateLibPaths(lib_paths, StmtNow)
    /\ stack' = SetTop(NextCard(Top, Top.idx + 1))
    /\ UNCHANGED <<system_type, files, symtabs, symbol_table, procedure_map,
                   res, scope, asmVars, dbVars, symVars, pc>>

PreSet ==
    /\ Complete /\ Dispatch(StmtNow) = "set"
    /\ symtabs' = [symtabs EXCEPT ![symbol_table] = UpdateSymbols(@, StmtNow)]
    /\ stack' = SetTop(NextCard(Top, Top.idx + 1))
    /\ UNCHANGED <<system_type, files, lib_paths, symbol_table, procedure_map,
                   res, scope, asmVars, dbVars, symVars, pc>>

\* A job-admin or conditional statement is dropped.
PreDrop ==
    /\ Complete /\ Dispatch(StmtNow) = "drop"
    /\ stack' = SetTop(NextCard(Top, Top.idx + 1))
    /\ UNCHANGED <<system_type, files, lib_paths, symtabs, symbol_table, procedure_map,
                   res, scope, asmVars, dbVars, symVars, pc>>

\* INCLUDE MEMBER=: preprocess_file on the resolved path; nothing when the member does
\* not resolve, and [] when the file cannot be opened.
PreInclude ==
    /\ Complete /\ Dispatch(StmtNow) = "include"
    /\ Len(stack) < RecursionLimit
    /\ LET path == ResolvePath(IncludeMember(StmtNow))
       IN  IF Readable(path)
           THEN stack' = Append(SetTop(NextCard(Top, Top.idx + 1)),
                                Frame("include", files[path], Org))
           ELSE stack' = SetTop(NextCard(Top, Top.idx + 1))
    /\ UNCHANGED <<system_type, files, lib_paths, symtabs, symbol_table, procedure_map,
                   res, scope, asmVars, dbVars, symVars, pc>>

\* A variant of ProcData: a procedure that is not found is taken as an empty one.
ProcDataEmpty(name) ==
    IF name \in DOMAIN procedure_map
    THEN [found |-> TRUE, header |-> procedure_map[name].header,
          body |-> procedure_map[name].body]
    ELSE [found |-> TRUE, header |-> NoStmt, body |-> <<>>]

\* proc_data of expand_procedure: the captured procedure, else the library member
\* (its first line is the header), else None.
ProcData(name) ==
    IF name \in DOMAIN procedure_map
    THEN [found |-> TRUE, header |-> procedure_map[name].header,
          body |-> procedure_map[name].body]
    ELSE LET path == ResolvePath(name)
         IN  IF Readable(path) /\ files[path] # <<>>
             THEN [found |-> TRUE, header |-> Head(files[path]), body |-> Tail(files[path])]
             ELSE [found |-> FALSE, header |-> NoStmt, body |-> <<>>]

\* An EXEC of a procedure: expand_procedure up to its call of process_line_list.  With
\* no proc_data the EXEC statement itself is the expansion.
PreExec ==
    /\ Complete /\ Dispatch(StmtNow) = "exec"
    /\ Len(stack) < RecursionLimit
    /\ LET m    == ExecMatch(StmtNow)
           data == ProcData(m.name)
       IN  IF ~data.found
           THEN /\ stack' = SetTop([NextCard(Top, Top.idx + 1) EXCEPT
                                       !.statements = Append(@, StmtEl(StmtNow, Org))])
                /\ UNCHANGED <<symtabs, symbol_table>>
           ELSE LET copy  == LocalSymbols(symtabs, symbol_table)
                    local == DictUpdate(DictUpdate(copy.heap[copy.ref], HeaderDefaults(data.header)),
                                        ExecOverrides(StmtNow))
                IN  /\ symtabs' = [copy.heap EXCEPT ![copy.ref] = local]
                    /\ symbol_table' = copy.ref
                    /\ stack' = Append(SetTop(NextCard(Top, Top.idx + 1)),
                                       [Frame("proc", data.body, Org) EXCEPT
                                           !.old_symbols = symbol_table,
                                           !.outer_label = StmtNow.label,
                                           !.proc_name = m.name,
                                           !.entry = Table])
    /\ UNCHANGED <<system_type, files, lib_paths, procedure_map,
                   res, scope, asmVars, dbVars, symVars, pc>>

\* The payload loop after an in-stream DD: where it stops, and whether the card
\* it stops at is consumed.
RECURSIVE PayloadStop(_, _, _)
PayloadStop(lines, i, dlm) ==
    IF i > Len(lines) \/ EndsPayload(dlm, lines[i]) THEN i
    ELSE PayloadStop(lines, i + 1, dlm)

PreInstream ==
    /\ Complete /\ Dispatch(StmtNow) = "instream"
    /\ LET dlm  == Delimiter(StmtNow)
           stop == PayloadStop(Top.lines, Top.idx + 1, dlm)
           pay  == [j \in 1..(stop - Top.idx - 1) |->
                       PayloadEl(Top.lines[Top.idx + j], Append(Top.path, Top.idx + j))]
           nxt  == IF stop <= Len(Top.lines) /\ dlm # DefaultDlm THEN stop + 1 ELSE stop
       IN  stack' = SetTop([NextCard(Top, nxt) EXCEPT
                               !.statements = Append(@, StmtEl(StmtNow, Org)) \o pay])
    /\ UNCHANGED <<system_type, files, lib_paths, symtabs, symbol_table, procedure_map,
                   res, scope, asmVars, dbVars, symVars, pc>>

\* statements.append(stmt)
PreEmit ==
    /\ Complete /\ Dispatch(StmtNow) = "emit"
    /\ stack' = SetTop([NextCard(Top, Top.idx + 1) EXCEPT
                           !.statements = Append(@, StmtEl(StmtNow, Org))])
    /\ UNCHANGED <<system_type, files, lib_paths, symtabs, symbol_table, procedure_map,
                   res, scope, asmVars, dbVars, symVars, pc>>

\* A variant of Wrapped: the invoking statement stays in the stream and the expansion
\* is not closed.
WrappedUnclosed(caller, f) ==
    caller.statements \o <<StmtEl(caller.lines[caller.idx - 1], f.path)>>
        \o <<ProcStartEl(f.outer_label, f.proc_name, f.path)>> \o f.statements

\* A variant of Wrapped: the expansion is put before what was emitted so far.
WrappedInFront(caller, f) ==
    <<ProcStartEl(f.outer_label, f.proc_name, f.path)>> \o f.statements
        \o <<ProcEndEl(Append(f.path, Len(f.lines) + 1))>> \o caller.statements

\* statements.extend([PROC_START] + expanded + [PROC_END]) in the caller.
Wrapped(caller, f) ==
    caller.statements \o <<ProcStartEl(f.outer_label, f.proc_name, f.path)>> \o f.statements
        \o <<ProcEndEl(Append(f.path, Len(f.lines) + 1))>>

\* process_line_list returns: to expand_procedure, which restores the symbol table and
\* wraps the expansion; to preprocess_file of an INCLUDE, whose caller extends its
\* statements; or to preprocess_file of the entry member, which returns to __main__.
PreReturn ==
    /\ pc = "pre" /\ stack # <<>> /\ Top.idx > Len(Top.lines)
    /\ LET f    == Top
           rest == SubSeq(stack, 1, Len(stack) - 1)
       IN  CASE f.kind = "proc" ->
                  /\ symbol_table' = f.old_symbols
                  /\ scope' = [set |-> TRUE, before |-> f.entry, inner |-> Table,
                               after |-> symtabs[f.old_symbols]]
                  /\ stack' = [rest EXCEPT ![Len(rest)].statements = Wrapped(rest[Len(rest)], f)]
                  /\ UNCHANGED <<res, pc>>
            [] f.kind = "include" ->
                  /\ stack' = [rest EXCEPT ![Len(rest)].statements = @ \o f.statements]
                  /\ UNCHANGED <<symbol_table, scope, res, pc>>
            [] OTHER ->
                  /\ stack' = rest
                  /\ res' = f.statements
                  /\ pc' = "parse"
                  /\ UNCHANGED <<symbol_table, scope>>
    /\ UNCHANGED <<system_type, files, lib_paths, symtabs, procedure_map,
                   asmVars, dbVars, symVars>>

\* A variant of PreRecursionError: the handler preprocesses the member again.
PreRecursionErrorRetry ==
    /\ Complete /\ Dispatch(StmtNow) \in {"include", "exec"}
    /\ Len(stack) >= RecursionLimit
    /\ LET files_at == {i \in 1..Len(stack) : stack[i].kind \in {"main", "include"}}
           catch    == Max(files_at)
       IN  stack' = [SubSeq(stack, 1, catch) EXCEPT
                        ![catch] = [NextCard(@, 1) EXCEPT !.statements = <<>>]]
    /\ UNCHANGED <<system_type, files, lib_paths, symtabs, symbol_table, procedure_map,
                   res, scope, asmVars, dbVars, symVars, pc>>

\* The call that passes the recursion limit raises RecursionError; the nearest
\* preprocess_file catches it (except Exception: return []), and nothing between
\* restores the symbol table.
PreRecursionError ==
    /\ Complete /\ Dispatch(StmtNow) \in {"include", "exec"}
    /\ Len(stack) >= RecursionLimit
    /\ LET files_at == {i \in 1..Len(stack) : stack[i].kind \in {"main", "include"}}
           catch    == Max(files_at)
           rest     == SubSeq(stack, 1, catch - 1)
       IN  IF rest = <<>>
           THEN stack' = rest /\ res' = <<>> /\ pc' = "parse"
           ELSE stack' = rest /\ UNCHANGED <<res, pc>>
    /\ UNCHANGED <<system_type, files, lib_paths, symtabs, symbol_table, procedure_map,
                   scope, asmVars, dbVars, symVars>>

-----------------------------------------------------------------------------
(* The grammar and the transformer, on tokens: what self.parser.parse      *)
(* returns for a statement, or None where Lark raises.                     *)

\* VALUE: /[A-Z0-9.#$@&*-+<>]+/ (the range *-+ is the two characters * and +).
ValueChar == NameChar \cup {".", "&", "*", "+", "<", ">"}

IsValue(v) == v # <<>> /\ Range(v) \subseteq ValueChar

\* JCL_QUOTED_STRING: /'(?:[^']|'')*'/, for a text with no quote inside.
IsQuoted(v) ==
    /\ Len(v) >= 2 /\ Head(v) = "'" /\ v[Len(v)] = "'"
    /\ "'" \notin Range(SubSeq(v, 2, Len(v) - 1))

\* JCL_ID: /[A-Z#$@][A-Z0-9#$@]{0,7}/
IsJclId(v) == v # <<>> /\ Len(v) <= 8 /\ Head(v) \in NameStart /\ Range(v) \subseteq NameChar

\* After "//" the lexer tries OP_EXEC and OP_DD (priority 4) before JCL_ID, so a label
\* that starts with EXEC or DD is not read as a label.
LabelParses(label) ==
    \/ label = <<>>
    \/ /\ IsJclId(label)
       /\ ~StartsWith(label, Chars("EXEC"))
       /\ ~StartsWith(label, Chars("DD"))

\* exec_content: a positional procedure name first, or keyword parameters.
ExecArgParses(a, first) ==
    CASE a.k = "POS"            -> first /\ IsValue(a.v)
      [] a.k \in {"PGM", "PROC"} -> IsValue(a.v)
      [] a.k = "PARM"           -> IsValue(a.v) \/ IsQuoted(a.v)
      [] a.k = "KW"             -> ~first /\ IsJclId(a.n) /\ (IsValue(a.v) \/ IsQuoted(a.v))
      [] OTHER                  -> FALSE

\* dd_params: of the productions, DSN=, *, DATA, DUMMY and the keywords SYSOUT, DLM
\* and UNIT.
DDArgParses(a) ==
    CASE a.k = "DSN"                     -> IsValue(a.v)
      [] a.k \in {"STAR", "DATA", "DUMMY"} -> TRUE
      [] a.k \in {"SYSOUT", "DLM", "UNIT"} -> IsValue(a.v) \/ IsQuoted(a.v)
      [] OTHER                           -> FALSE

Parses(s) ==
    /\ s.op \in {"EXEC", "DD"} /\ s.args # <<>> /\ LabelParses(s.label)
    /\ \A i \in 1..Len(s.args) :
          IF s.op = "EXEC" THEN ExecArgParses(s.args[i], i = 1) ELSE DDArgParses(s.args[i])

\* The value the transformer keeps: a quoted string without its quotes.
Unquote(v) == IF IsQuoted(v) THEN SubSeq(v, 2, Len(v) - 1) ELSE v

\* params.get(key): the value of the last token of the kinds, or None.
ParamOf(s, kinds) ==
    LET at == {i \in 1..Len(s.args) : s.args[i].k \in kinds}
    IN  IF at = {} THEN None ELSE Unquote(s.args[Max(at)].v)

HasParam(s, kinds) == \E i \in 1..Len(s.args) : s.args[i].k \in kinds

\* The record of the transformer for a statement that parses; at is history: the
\* place of the statement in the stream.
Parse(s, at) ==
    IF s.op = "EXEC"
    THEN [type |-> "EXEC", label |-> IF s.label = <<>> THEN None ELSE s.label,
          params |-> [PGM |-> ParamOf(s, {"PGM"}), PROC |-> ParamOf(s, {"PROC", "POS"}),
                      PARM |-> ParamOf(s, {"PARM"})],
          final_proc_name |-> None, final_step_name |-> None, final_proc_step_name |-> None,
          at |-> at]
    ELSE [type |-> "DD", label |-> IF s.label = <<>> THEN None ELSE s.label,
          params |-> [DSN |-> ParamOf(s, {"DSN"}),
                      INSTREAM |-> HasParam(s, {"STAR", "DATA"}),
                      DUMMY |-> HasParam(s, {"DUMMY"}),
                      SYSOUT |-> HasParam(s, {"SYSOUT"})],
          payload |-> <<>>, at |-> at]

-----------------------------------------------------------------------------
(* JCLParserManager.process_results: one action for each turn of its loop. *)

HasEl == pc = "asm" /\ pos <= Len(results_list)

El == results_list[pos]

\* A variant of ContextFrame: the first frame pushed.
OutermostFrame(st) == st[1]

\* outer = proc_stack[-1]
ContextFrame(st) == st[Len(st)]

\* A variant of ApplyContext: the context stack is not looked at.
ApplyContextNoStack(tree, st) ==
    [tree EXCEPT !.final_proc_name = tree.params.PROC,
                 !.final_step_name = tree.label,
                 !.final_proc_step_name = None]

\* The "Context Application" of process_results on the record of an EXEC.
ApplyContext(tree, st) ==
    IF st # <<>>
    THEN [tree EXCEPT !.final_proc_name = ContextFrame(st).proc,
                      !.final_step_name = ContextFrame(st).label,
                      !.final_proc_step_name = tree.label]
    ELSE [tree EXCEPT !.final_proc_name = tree.params.PROC,
                      !.final_step_name = tree.label,
                      !.final_proc_step_name = None]

\* __main__: manager.process_results(res)
AsmCall ==
    /\ pc = "parse"
    /\ results_list' = res /\ pos' = 1 /\ proc_stack' = <<>>
    /\ pc' = "asm"
    /\ UNCHANGED <<preVars, steps, current_step, dbVars, symVars>>

\* The sentinel is the text f"*PROC_START* label={outer_label} proc={name}", read back
\* by label=(.*) proc=(.*); the label of an unlabeled EXEC is the empty text.
AsmProcStart ==
    /\ HasEl /\ El.k = "PROC_START"
    /\ proc_stack' = Append(proc_stack, [label |-> El.label, proc |-> El.proc])
    /\ pos' = pos + 1
    /\ UNCHANGED <<preVars, results_list, steps, current_step, dbVars, symVars, pc>>

AsmProcEnd ==
    /\ HasEl /\ El.k = "PROC_END"
    /\ proc_stack' = IF proc_stack # <<>> THEN SubSeq(proc_stack, 1, Len(proc_stack) - 1)
                     ELSE proc_stack
    /\ pos' = pos + 1
    /\ UNCHANGED <<preVars, results_list, steps, current_step, dbVars, symVars, pc>>

\* A payload line goes to the last DD of the last step, if there is one.
AsmPayload ==
    /\ HasEl /\ El.k = "PAYLOAD"
    /\ steps' = IF steps # <<>> /\ steps[Len(steps)].dds # <<>>
                THEN [steps EXCEPT ![Len(steps)].dds[Len(steps[Len(steps)].dds)].payload =
                                        Append(@, El.card)]
                ELSE steps
    /\ pos' = pos + 1
    /\ UNCHANGED <<preVars, results_list, proc_stack, current_step, dbVars, symVars, pc>>

AsmExec ==
    /\ HasEl /\ El.k = "STMT" /\ Parses(El.card) /\ Parse(El.card, pos).type = "EXEC"
    /\ steps' = Append(steps, [step_info |-> ApplyContext(Parse(El.card, pos), proc_stack),
                               dds |-> <<>>])
    /\ current_step' = Len(steps) + 1
    /\ pos' = pos + 1
    /\ UNCHANGED <<preVars, results_list, proc_stack, dbVars, symVars, pc>>

AsmDD ==
    /\ HasEl /\ El.k = "STMT" /\ Parses(El.card) /\ Parse(El.card, pos).type = "DD"
    /\ steps' = IF current_step # 0
                THEN [steps EXCEPT ![current_step].dds = Append(@, Parse(El.card, pos))]
                ELSE steps
    /\ pos' = pos + 1
    /\ UNCHANGED <<preVars, results_list, proc_stack, current_step, dbVars, symVars, pc>>

\* A variant of AsmParseError: the failure ends the pass.
AsmParseErrorAborts ==
    /\ HasEl /\ El.k = "STMT" /\ ~Parses(El.card)
    /\ pos' = Len(results_list) + 1
    /\ UNCHANGED <<preVars, results_list, proc_stack, steps, current_step, dbVars, symVars, pc>>

\* except Exception: the statement is reported and the loop goes on.
AsmParseError ==
    /\ HasEl /\ El.k = "STMT" /\ ~Parses(El.card)
    /\ pos' = pos + 1
    /\ UNCHANGED <<preVars, results_list, proc_stack, steps, current_step, dbVars, symVars, pc>>

\* return self.steps
AsmReturn ==
    /\ pc = "asm" /\ pos > Len(results_list)
    /\ pc' = "insert"
    /\ UNCHANGED <<preVars, asmVars, dbVars, symVars>>

-----------------------------------------------------------------------------
(* DatabaseManager.  db holds the committed rows: projects are the rows    *)
(* [project_id, project_name] (project_id is SERIAL, and serial is the    *)
(* last value drawn from its sequence, which no rollback gives back); tx   *)
(* holds the rows inserted by the open transaction of insert_project_data  *)
(* and the locals of its loop.                                             *)

\* A variant of AllocRefused: dd_name may be null.
AllocRefusedLengths(row) ==
    \/ Len(row.dd_name) > 8
    \/ Len(row.dsn) > 44

\* A row of DATA_ALLOCATIONS is refused: dd_name VARCHAR(8) NOT NULL, dsn VARCHAR(44).
AllocRefused(row) ==
    \/ row.dd_name = None
    \/ Len(row.dd_name) > 8
    \/ Len(row.dsn) > 44

Digit(d) == <<"0", "1", "2", "3", "4", "5", "6", "7", "8", "9">>[d + 1]

RECURSIVE Decimal(_)
Decimal(n) == IF n < 10 THEN <<Digit(n)>> ELSE Append(Decimal(n \div 10), Digit(n % 10))

RECURSIVE Zeros(_)
Zeros(n) == IF n <= 0 THEN <<>> ELSE <<"0">> \o Zeros(n - 1)

\* f"X{relative_step_counter:07d}"
RelStep(n) == <<"X">> \o Zeros(7 - Len(Decimal(n))) \o Decimal(n)

\* A row of STEPS is refused: relative_step, step_name, proc_step_name, program_name
\* and proc_name are VARCHAR(8).
StepRefused(row) ==
    \/ Len(row.relative_step) > 8
    \/ \E v \in {row.step_name, row.proc_step_name, row.program_name, row.proc_name} :
          v # None /\ Len(v) > 8

\* A variant of NextOffset: the offset goes on counting over a labeled DD.
NextOffsetNoRestart(label, offset) == offset + 1

\* allocation_offset after a DD: 1 at a label, one more without.
NextOffset(label, offset) == IF label # None /\ label # <<>> THEN 1 ELSE offset + 1

\* The surrogate of the dsn column.
DsnOf(params) ==
    IF params.DUMMY THEN <<"(dummy)">>
    ELSE IF params.INSTREAM THEN <<"(input stream)">>
    ELSE IF params.SYSOUT THEN <<"(output stream)">>
    ELSE IF params.DSN = None \/ params.DSN = <<>> THEN <<"(work_ds)">>
    ELSE params.DSN

\* The loop over step['dds']: the rows inserted, up to the first one refused.
RECURSIVE AllocRows(_, _, _, _, _, _, _)
AllocRows(dds, i, last_dd_name, offset, project_id, step_id, rows) ==
    IF i > Len(dds) THEN [rows |-> rows, failed |-> FALSE]
    ELSE LET dd   == dds[i]
             name == IF dd.label # None /\ dd.label # <<>> THEN dd.label ELSE last_dd_name
             off  == NextOffset(dd.label, offset)
             row  == [project_id |-> project_id, step_id |-> step_id, ds_id |-> i,
                      dd_name |-> name, allocation_offset |-> off,
                      dsn |-> DsnOf(dd.params), is_dummy |-> dd.params.DUMMY,
                      instream_ref |-> dd.payload]
         IN  IF AllocRefused(row) THEN [rows |-> rows, failed |-> TRUE]
             ELSE AllocRows(dds, i + 1, name, off, project_id, step_id, Append(rows, row))

StepRow(project_id, step_id, rel, info) ==
    [project_id |-> project_id, step_id |-> step_id, relative_step |-> RelStep(rel),
     step_name |-> info.final_step_name, proc_step_name |-> info.final_proc_step_name,
     program_name |-> info.params.PGM, proc_name |-> info.final_proc_name,
     parameters |-> info.params.PARM]

\* SELECT COALESCE(MAX(step_id), 0) FROM STEPS WHERE project_id = ..
MaxStepId(rows, project_id) ==
    LET ids == {rows[i].step_id : i \in {j \in 1..Len(rows) : rows[j].project_id = project_id}}
    IN  IF ids = {} THEN 0 ELSE Max(ids)

\* SELECT project_id FROM PROJECTS WHERE project_name = ..
ProjectId(projects, name) ==
    projects[CHOOSE i \in 1..Len(projects) : projects[i].project_name = name].project_id

NoTx == [open |-> FALSE, project_id |-> 0, i |-> 0, step_id_counter |-> 0,
         relative_step_counter |-> 0, projects |-> <<>>, steps |-> <<>>, allocs |-> <<>>]

EmptyDb == [projects |-> <<>>, serial |-> 0, steps |-> <<>>, allocs |-> <<>>,
            project |-> "P1", calls |-> <<>>]

\* A variant of FirstRelative: relative_step goes on from the step_id counter.
FirstRelativeFromStepId(step_id_counter) == step_id_counter

\* relative_step_counter = 0 before the loop.
FirstRelative(step_id_counter) == 0

\* DatabaseManager(db_credentials, drop_tables): connect and create_tables.
DbConnect ==
    /\ pc = "insert"
    /\ \E drop \in BOOLEAN :
          db' = IF drop THEN [EmptyDb EXCEPT !.project = db.project] ELSE db
    /\ pc' = "ready"
    /\ UNCHANGED <<preVars, asmVars, tx, runs, symVars>>

\* insert_project_data up to its loop: the PROJECTS row and the two counters.  The
\* INSERT draws a project_id from the sequence also when ON CONFLICT keeps the old row.
DbBegin ==
    /\ pc = "ready"
    /\ LET known == \E i \in 1..Len(db.projects) : db.projects[i].project_name = db.project
           pid   == IF known THEN ProjectId(db.projects, db.project) ELSE db.serial + 1
           base  == MaxStepId(db.steps, pid)
       IN  /\ tx' = [NoTx EXCEPT !.open = TRUE, !.project_id = pid, !.i = 1,
                                 !.step_id_counter = base,
                                 !.relative_step_counter = FirstRelative(base),
                                 !.projects =
                                     IF known THEN <<>>
                                     ELSE <<[project_id |-> pid, project_name |-> db.project]>>]
           /\ db' = [db EXCEPT !.serial = @ + 1]
    /\ pc' = "tx"
    /\ UNCHANGED <<preVars, asmVars, runs, symVars>>

\* A variant of Aborted: every row is committed as it is inserted (autocommit).
AbortedKeepsRows(database, t) ==
    [database EXCEPT !.projects = @ \o t.projects, !.steps = @ \o t.steps,
                     !.allocs = @ \o t.allocs]

\* The exception leaves insert_project_data before self.conn.commit(): the rows of the
\* open transaction t are not part of the committed state.
Aborted(database, t) == database

\* One turn of the loop over structured_data: the STEPS row, then the rows of its DDs.
\* A refused row raises; nothing is committed and the program ends.  After that tx is
\* history: the rows that the aborted transaction had inserted.
DbInsertStep ==
    /\ pc = "tx" /\ tx.i <= Len(steps)
    /\ LET step == steps[tx.i]
           sid  == tx.step_id_counter + 1
           rel  == tx.relative_step_counter + 1
           row  == StepRow(tx.project_id, sid, rel, step.step_info)
           dds  == AllocRows(step.dds, 1, None, 0, tx.project_id, sid, <<>>)
       IN  IF StepRefused(row)
           THEN /\ tx' = [NoTx EXCEPT !.projects = tx.projects, !.steps = tx.steps,
                                      !.allocs = tx.allocs]
                /\ db' = Aborted(db, tx')
                /\ pc' = "failed"
           ELSE IF dds.failed
           THEN /\ tx' = [NoTx EXCEPT !.projects = tx.projects,
                                      !.steps = Append(tx.steps, row),
                                      !.allocs = tx.allocs \o dds.rows]
                /\ db' = Aborted(db, tx')
                /\ pc' = "failed"
           ELSE /\ tx' = [tx EXCEPT !.i = @ + 1, !.step_id_counter = sid,
                                    !.relative_step_counter = rel,
                                    !.steps = Append(@, row),
                                    !.allocs = @ \o dds.rows]
                /\ db' = db
                /\ pc' = pc
    /\ UNCHANGED <<preVars, asmVars, runs, symVars>>

\* self.conn.commit(); calls is history: what each committed call inserted.
DbCommit ==
    /\ pc = "tx" /\ tx.i > Len(steps)
    /\ db' = [db EXCEPT !.projects = @ \o tx.projects,
                        !.steps = @ \o tx.steps,
                        !.allocs = @ \o tx.allocs,
                        !.calls = Append(@, [project_id |-> tx.project_id, steps |-> tx.steps])]
    /\ tx' = NoTx
    /\ pc' = "done"
    /\ UNCHANGED <<preVars, asmVars, runs, symVars>>

-----------------------------------------------------------------------------
(* __main__: the entry member is resolved and preprocessed, the stream is  *)
(* assembled, and the steps are inserted under config["PROJECT"].          *)

EntryMember == <<"M", "A", "I", "N">>

MainStart ==
    /\ pc = "start"
    /\ LET path == ResolvePath(EntryMember)
       IN  IF path = None THEN pc' = "done" /\ UNCHANGED <<stack, res>>
           ELSE IF Readable(path)
           THEN /\ stack' = <<Frame("main", files[path], <<>>)>>
                /\ pc' = "pre"
                /\ UNCHANGED res
           ELSE /\ res' = <<>>
                /\ pc' = "parse"
                /\ UNCHANGED stack
    /\ UNCHANGED <<system_type, files, lib_paths, symtabs, symbol_table, procedure_map,
                   scope, asmVars, dbVars, symVars>>

-----------------------------------------------------------------------------
(* The decks and the library members of the runs that are checked.         *)

MaxBody == 1
MaxMain == 3
MaxPayload == 2
MaxAsm == 3

KwP(v) == Arg("KW", <<"P">>, <<v>>)
RefP == <<"&", "P">>

\* //S1 EXEC PGM=&P
cStepS1 == Card(<<"S", "1">>, "EXEC", <<Arg("PGM", <<>>, RefP)>>)
\* //C1 EXEC Q
cCallQ == Card(<<"C", "1">>, "EXEC", <<Arg("POS", <<>>, <<"Q">>)>>)
\* //C2 EXEC Q,P=O
cCallQO == Card(<<"C", "2">>, "EXEC", <<Arg("POS", <<>>, <<"Q">>), KwP("O")>>)
\* // SET P=M
cSetM == Card(<<>>, "SET", <<KwP("M")>>)
\* //Q PROC P=D
cProcQ == Card(<<"Q">>, "PROC", <<KwP("D")>>)
\* // PEND
cPend == Card(<<>>, "PEND", <<>>)
\* //Q1 EXEC PGM=&P
cStepQ1 == Card(<<"Q", "1">>, "EXEC", <<Arg("PGM", <<>>, RefP)>>)
\* // SET P=S
cSetS == Card(<<>>, "SET", <<KwP("S")>>)
\* //N1 EXEC R,P=N
cCallR == Card(<<"N", "1">>, "EXEC", <<Arg("POS", <<>>, <<"R">>), KwP("N")>>)
\* //R PROC P=L
cProcR == Card(<<"R">>, "PROC", <<KwP("L")>>)
\* //R1 EXEC PGM=&P
cStepR1 == Card(<<"R", "1">>, "EXEC", <<Arg("PGM", <<>>, RefP)>>)
\* // SET P=T
cSetT == Card(<<>>, "SET", <<KwP("T")>>)
\* //LOOP PROC
cProcLoop == Card(<<"L", "O", "O", "P">>, "PROC", <<>>)
\* //L1 EXEC LOOP
cCallLoop == Card(<<"L", "1">>, "EXEC", <<Arg("POS", <<>>, <<"L", "O", "O", "P">>)>>)
\* //I1 EXEC PGM=INC
cStepI1 == Card(<<"I", "1">>, "EXEC", <<Arg("PGM", <<>>, <<"I", "N", "C">>)>>)
\* // INCLUDE MEMBER=INC
cInclude == Card(<<>>, "INCLUDE", <<Arg("MEMBER", <<>>, <<"I", "N", "C">>)>>)
\* // INCLUDE MEMBER=SELF
cIncludeSelf == Card(<<>>, "INCLUDE", <<Arg("MEMBER", <<>>, <<"S", "E", "L", "F">>)>>)
\* //PA PROC   and   //PB PROC
cProcPA == Card(<<"P", "A">>, "PROC", <<>>)
cProcPB == Card(<<"P", "B">>, "PROC", <<>>)
\* //A4 EXEC PA   and   //B4 EXEC PB
cCallPA == Card(<<"A", "4">>, "EXEC", <<Arg("POS", <<>>, <<"P", "A">>)>>)
cCallPB == Card(<<"B", "4">>, "EXEC", <<Arg("POS", <<>>, <<"P", "B">>)>>)
\* // INCLUDE MEMBER=NONE
cIncludeNone == Card(<<>>, "INCLUDE", <<Arg("MEMBER", <<>>, <<"N", "O", "N", "E">>)>>)
\* // JCLLIB ORDER=(L2)
cJcllib == Card(<<>>, "JCLLIB", <<Arg("ORDER", <<>>, <<"L2">>)>>)
\* // JCLLIB ORDER=(L3)
cJcllibL3 == Card(<<>>, "JCLLIB", <<Arg("ORDER", <<>>, <<"L3">>)>>)
\* // JCLLIB ORDER=(L2,L3)
cJcllibTwo == Card(<<>>, "JCLLIB", <<Arg("ORDER", <<>>, <<"L2", "L3">>)>>)
\* // INCLUDE MEMBER=LIBS
cIncludeLibs == Card(<<>>, "INCLUDE", <<Arg("MEMBER", <<>>, <<"L", "I", "B", "S">>)>>)
\* //R2 EXEC PGM=B
cStepR2 == Card(<<"R", "2">>, "EXEC", <<Arg("PGM", <<>>, <<"B">>)>>)
\* //J JOB
cJob == Card(<<"J">>, "JOB", <<>>)
\* //* A COMMENT
cComment == TextCard(<<"/", "/", "*">>)
\* //S3 EXEC PGM=A,   with the operand field going on
cExecComma == [Card(<<"S", "3">>, "EXEC", <<Arg("PGM", <<>>, <<"A">>)>>) EXCEPT !.cont = TRUE]
\* //             PARM=B
cContParm == Card(<<>>, "", <<Arg("PARM", <<>>, <<"B">>)>>)
\* //             PARM=B,
cContParmComma == [Card(<<>>, "", <<Arg("PARM", <<>>, <<"B">>)>>) EXCEPT !.cont = TRUE]
\* //             T=5
cContT == Card(<<>>, "", <<Arg("KW", <<"T">>, <<"5">>)>>)
\* // SET P=M,Z=N
cSetTwo == Card(<<>>, "SET", <<KwP("M"), Arg("KW", <<"Z">>, <<"N">>)>>)
\* //MYPROC PROC P=D
cProcMy == Card(<<"M", "Y", "P", "R", "O", "C">>, "PROC", <<KwP("D")>>)
\* //C4 EXEC MYPROC
cCallMy == Card(<<"C", "4">>, "EXEC", <<Arg("POS", <<>>, <<"M", "Y", "P", "R", "O", "C">>)>>)
\* //C5 EXEC MYPROC,P=O
cCallMyO == Card(<<"C", "5">>, "EXEC", <<Arg("POS", <<>>, <<"M", "Y", "P", "R", "O", "C">>), KwP("O")>>)
\* //S4 EXEC NOPROC
cCallNone == Card(<<"S", "4">>, "EXEC", <<Arg("POS", <<>>, <<"N", "O", "P", "R", "O", "C">>)>>)

\* //A1 EXEC PGM=A
cExecA == Card(<<"A", "1">>, "EXEC", <<Arg("PGM", <<>>, <<"A">>)>>)
\* //A2 EXEC PGM=B,PARM=(X): PARM takes no list in the grammar
cExecBad == Card(<<"A", "2">>, "EXEC", <<Arg("PGM", <<>>, <<"B">>),
                                         Arg("PARM", <<>>, <<"(", "X", ")">>)>>)
\* //IN DD DSN=A
cDDIn == Card(<<"I", "N">>, "DD", <<Arg("DSN", <<>>, <<"A">>)>>)
\* // DD DSN=B
cDDMore == Card(<<>>, "DD", <<Arg("DSN", <<>>, <<"B">>)>>)
\* //A3 EXEC R
cCallRPlain == Card(<<"A", "3">>, "EXEC", <<Arg("POS", <<>>, <<"R">>)>>)

\* //SYSIN DD *   and with DLM=$$, DLM='$$', DLM=/*
cSysin == Card(<<"S", "Y", "S", "I", "N">>, "DD", <<Arg("STAR", <<>>, <<>>)>>)
cSysinDlm(v) == Card(<<"S", "Y", "S", "I", "N">>, "DD",
                     <<Arg("STAR", <<>>, <<>>), Arg("DLM", <<>>, v)>>)
\* //SYSIN DD *,FOO=1: FOO is no keyword of dd_params
cSysinBad == Card(<<"S", "Y", "S", "I", "N">>, "DD",
                  <<Arg("STAR", <<>>, <<>>), Arg("KW", <<"F", "O", "O">>, <<"1">>)>>)
\* *PROC_END*, a line of text in the deck
cEndText == TextCard(EndSentinel)
\* //NEXT DD DUMMY
cDummy == Card(<<"N", "E", "X", "T">>, "DD", <<Arg("DUMMY", <<>>, <<>>)>>)

\* //D1 DD DUMMY,DSN=A
cDummyDsn == Card(<<"D", "1">>, "DD", <<Arg("DUMMY", <<>>, <<>>), Arg("DSN", <<>>, <<"A">>)>>)
\* //D2 DD SYSOUT=A
cSysout == Card(<<"D", "2">>, "DD", <<Arg("SYSOUT", <<>>, <<"A">>)>>)
\* //D3 DD UNIT=X
cUnit == Card(<<"D", "3">>, "DD", <<Arg("UNIT", <<>>, <<"X">>)>>)

DlmCards == {cSysin, cSysinDlm(<<"$", "$">>), cSysinDlm(<<"'", "$", "$", "'">>),
             cSysinDlm(<<"/", "*">>)}

PayloadCards == {TextCard(<<"H", "I">>), TextCard(<<"$", "$">>), TextCard(<<"$", "A">>),
                 TextCard(<<"/", "*">>), cDummy}

BodyCards == {cStepQ1, cSetS, cCallR}

MainCards == {cStepS1, cCallQ, cCallQO, cSetM}

AsmCards == {cExecA, cExecBad, cDDIn, cDDMore, cCallRPlain}

\* An in-stream procedure Q and a deck that may call it.
ScopeDecks ==
    {<<cProcQ>> \o b \o <<cPend>> \o m :
        b \in SeqsUpTo(BodyCards, MaxBody), m \in SeqsUpTo(MainCards, MaxMain)}

\* A step with an in-stream DD and the cards after it.
PayloadDecks ==
    {<<cExecA, d>> \o t : d \in DlmCards, t \in SeqsUpTo(PayloadCards, MaxPayload)}

\* Steps, DDs and a call of the library procedure R.
AsmDecks == SeqsUpTo(AsmCards, MaxAsm)

\* Job card, comment, JCLLIB, INCLUDE, a continued statement, a recursive procedure;
\* a procedure with SET, a step and a nested call in its body; a concatenation of three
\* DDs; DDs of every kind of dsn; a payload behind a quoted delimiter.
OtherDecks ==
    {<<cJob, cComment, cInclude, cIncludeNone, cExecComma, cContParm, cCallNone, cCallR>>,
     <<cStepS1, cJcllib, cCallLoop, cStepS1>>,
     <<cExecComma, cContParm, cDDIn, cCallR>>,
     <<cExecComma, cComment, cContParmComma, cContT, cExecA>>,
     <<cProcMy, cStepQ1, cPend, cSetM, cCallMy, cCallMyO>>,
     <<cSetS, cSetTwo, cStepS1>>,
     <<cExecA, cDDIn, cDDMore, cExecA, cDDMore, cDDIn>>,
     <<cIncludeSelf, cExecA>>,
     <<cExecA, cIncludeSelf, cCallPA, cExecA>>,
     <<cProcQ, cEndText, cStepQ1, cPend, cCallQ, cStepS1>>,
     <<cExecA, cDDIn, cSysinBad, TextCard(<<"H", "I">>), cDummy>>,
     <<cSysin, TextCard(<<"H", "I">>), cExecA, cSysin, TextCard(<<"H", "I">>), TextCard(<<"$", "A">>)>>,
     <<cExecA, cDDIn, cExecBad, cDDMore, cExecA, cDDIn>>,
     <<cJcllibL3, cIncludeLibs, cCallRPlain>>,
     <<cProcQ, cSetS, cStepQ1, cCallR, cPend, cSetM, cStepS1, cCallQO, cStepS1>>,
     <<cExecA, cDDIn, cDDMore, cDDMore, cExecA, cDDIn>>,
     <<cExecA, cSysout, cUnit, cDummy, cSysin, cExecA, cDummyDsn>>,
     <<cExecA, cSysinDlm(<<"'", "$", "$", "'">>), TextCard(<<"H", "I">>),
       TextCard(<<"$", "A">>), TextCard(<<"$", "$">>), cDummy>>}

\* Labels of a program step: none, plain, and names that hold a keyword of JCL.
StepLabels ==
    {<<>>, <<"A", "1">>, <<"S", "E", "T">>, <<"J", "O", "B">>, <<"P", "R", "O", "C">>,
     <<"I", "F", "A">>, <<"S", "T", "E", "P", "I", "F">>, <<"E", "L", "S", "E">>}

\* //label EXEC PGM=A,P=X
cExecLabeled(l) == Card(l, "EXEC", <<Arg("PGM", <<>>, <<"A">>), KwP("X")>>)

\* A program step under each label, and a DD.
LabelDecks == {<<cExecLabeled(l), cDDIn>> : l \in StepLabels}

Decks == ScopeDecks \cup PayloadDecks \cup AsmDecks \cup LabelDecks \cup OtherDecks

\* The members of the libraries L1 and L2, without the entry member.
Library ==
    (<<"L1", <<"R">>>> :> <<cProcR, cStepR1, cSetT, cStepR1>>)
    @@ (<<"L1", <<"I", "N", "C">>>> :> <<cStepI1, cSetM>>)
    @@ (<<"L1", <<"L", "I", "B", "S">>>> :> <<cJcllibTwo>>)
    @@ (<<"L1", <<"S", "E", "L", "F">>>> :> <<cStepI1, cIncludeSelf, cDDIn>>)
    @@ (<<"L1", <<"P", "A">>>> :> <<cProcPA, cCallPB>>)
    @@ (<<"L1", <<"P", "B">>>> :> <<cProcPB, cStepR2, cCallPA>>)
    @@ (<<"L2", <<"L", "O", "O", "P">>>> :> <<cProcLoop, cCallLoop>>)
    @@ (<<"L2", <<"R">>>> :> <<cProcR, cStepR2>>)

InitCommon ==
    /\ lib_paths = <<"L1">>
    /\ symtabs = << <<>> >>
    /\ symbol_table = 1
    /\ procedure_map = [x \in {} |-> NoStmt]
    /\ stack = <<>>
    /\ res = <<>>
    /\ scope = NoScope
    /\ results_list = <<>>
    /\ pos = 1
    /\ proc_stack = <<>>
    /\ steps = <<>>
    /\ current_step = 0
    /\ db = EmptyDb
    /\ tx = NoTx
    /\ sym_stmt = <<>>
    /\ sym_once = <<>>
    /\ sym_twice = <<>>

\* The state after JCLPreprocessor(config): a deck as the entry member, or none.
Init ==
    /\ InitCommon
    /\ pc = "start"
    /\ runs = 1
    /\ \E deck \in Decks, sys \in {"LWM", "Z"}, present \in BOOLEAN :
          /\ (sys = "Z" \/ ~present) => deck \in OtherDecks
          /\ system_type = sys
          /\ files = IF present THEN (<<"L1", EntryMember>> :> deck) @@ Library ELSE Library

Next ==
    \/ MainStart
    \/ PreSkip \/ PreContinue \/ PreCaptureProc \/ PreJcllib \/ PreSet \/ PreDrop
    \/ PreInclude \/ PreExec \/ PreInstream \/ PreEmit \/ PreReturn \/ PreRecursionError
    \/ AsmCall \/ AsmProcStart \/ AsmProcEnd \/ AsmPayload \/ AsmExec \/ AsmDD
    \/ AsmParseError \/ AsmReturn
    \/ DbConnect \/ DbBegin \/ DbInsertStep \/ DbCommit

Spec == Init /\ [][Next]_vars

\* The program is one thread that runs to its end: while it preprocesses it keeps
\* taking steps (a preprocessing state always has a step to take, see NeverStuck).
SpecFair == Spec /\ (<>[](pc = "pre") => []<><<Next>>_vars)

-----------------------------------------------------------------------------
(* The program run again and again on one database.  Each run is a new     *)
(* process: a new JCLParserManager, the stream of its own entry member,    *)
(* config["PROJECT"] as the project name.                                  *)

MaxRuns == 3

Projects == {"P1", "P2"}

\* The streams of the entry members <<A1>>, <<A1, IN, A1>> and <<A1, IN, A1, DD>>; the
\* unlabeled first DD of a step is refused by DATA_ALLOCATIONS.
DbStreams ==
    {<<StmtEl(cExecA, <<1>>)>>,
     <<StmtEl(cExecA, <<1>>), StmtEl(cDDIn, <<2>>), StmtEl(cExecA, <<3>>)>>,
     <<StmtEl(cExecA, <<1>>), StmtEl(cDDIn, <<2>>), StmtEl(cExecA, <<3>>),
       StmtEl(cDDMore, <<4>>)>>}

DbNewRun ==
    /\ pc \in {"idle", "done", "failed"}
    /\ runs < MaxRuns
    /\ runs' = runs + 1
    /\ \E stream \in DbStreams, project \in Projects :
          /\ res' = stream
          /\ db' = [db EXCEPT !.project = project]
    /\ results_list' = <<>> /\ pos' = 1 /\ proc_stack' = <<>>
    /\ steps' = <<>> /\ current_step' = 0
    /\ pc' = "parse"
    /\ UNCHANGED <<system_type, files, lib_paths, symtabs, symbol_table, procedure_map,
                   stack, scope, tx, symVars>>

InitDB ==
    /\ InitCommon
    /\ system_type = "LWM"
    /\ files = Library
    /\ pc = "idle"
    /\ runs = 0

NextDB ==
    \/ DbNewRun
    \/ AsmCall \/ AsmExec \/ AsmDD \/ AsmReturn
    \/ DbConnect \/ DbBegin \/ DbInsertStep \/ DbCommit

SpecDB == InitDB /\ [][NextDB]_vars

-----------------------------------------------------------------------------
(* apply_symbolics on its own: a symbol table built by SET statements, as  *)
(* process_line_list builds it, and a statement substituted once and then  *)
(* once more.                                                              *)

MaxPieces == 3

\* The values of the symbol table are kept to this length.
MaxValueLen == 4

SymNames == {<<"A">>, <<"A", "B", "C">>}

SymValues == {<<"1">>, <<"9">>, <<"A">>, <<"&", "A", "B", "C">>}

Pieces == {<<"&", "A">>, <<"&", "A", "B", "C">>, <<".">>, <<".", ".">>, <<"B", "C">>,
           <<"X">>, <<" ">>, <<"&">>}

Statements == {Flatten(ps) : ps \in SeqsUpTo(Pieces, MaxPieces)}

\* // SET n=v through process_line_list: apply_symbolics, then update_symbols.
SymSet ==
    /\ pc = "sym"
    /\ \E n \in SymNames, v \in SymValues :
          LET d == UpdateSymbols(Table, ApplyStmt(Table, Card(<<>>, "SET", <<Arg("KW", n, v)>>)))
          IN  /\ \A i \in 1..Len(d) : Len(d[i].val) <= MaxValueLen
              /\ symtabs' = [symtabs EXCEPT ![symbol_table] = d]
    /\ UNCHANGED <<system_type, files, lib_paths, symbol_table, procedure_map, stack, res,
                   scope, asmVars, dbVars, symVars, pc>>

\* apply_symbolics(s)
SymApplyOnce ==
    /\ pc = "sym"
    /\ \E s \in Statements :
          /\ sym_stmt' = s
          /\ sym_once' = ApplySymbolics(Table, s)
    /\ pc' = "sym1"
    /\ UNCHANGED <<preVars, asmVars, dbVars, sym_twice>>

\* apply_symbolics(apply_symbolics(s))
SymApplyTwice ==
    /\ pc = "sym1"
    /\ sym_twice' = ApplySymbolics(Table, sym_once)
    /\ pc' = "sym2"
    /\ UNCHANGED <<preVars, asmVars, dbVars, sym_stmt, sym_once>>

InitSym ==
    /\ InitCommon
    /\ system_type = "LWM"
    /\ files = Library
    /\ pc = "sym"
    /\ runs = 0

NextSym == SymSet \/ SymApplyOnce \/ SymApplyTwice

SpecSym == InitSym /\ [][NextSym]_vars

-----------------------------------------------------------------------------
(* Properties of the pipeline.                                             *)

MainDeck == IF <<"L1", EntryMember>> \in DOMAIN files THEN files[<<"L1", EntryMember>>] ELSE <<>>

\* The context stack that the sentinels of the first n elements of a stream build.
RECURSIVE ContextAt(_, _)
ContextAt(stream, n) ==
    IF n = 0 THEN <<>>
    ELSE LET st == ContextAt(stream, n - 1)
             e  == stream[n]
         IN  IF e.k = "PROC_START" THEN Append(st, [label |-> e.label, proc |-> e.proc])
             ELSE IF e.k = "PROC_END" /\ st # <<>> THEN SubSeq(st, 1, Len(st) - 1)
             ELSE st

\* The context of the step steps[i], and the label and positional or PROC= operand of
\* the EXEC statement it was made from.
StepContext(i) == ContextAt(results_list, steps[i].step_info.at - 1)

StepCard(i) == results_list[steps[i].step_info.at].card

OwnLabel(i) == IF StepCard(i).label = <<>> THEN None ELSE StepCard(i).label

OwnProc(i) ==
    LET at == {j \in 1..Len(StepCard(i).args) : StepCard(i).args[j].k \in {"PROC", "POS"}}
    IN  IF at = {} THEN None ELSE StepCard(i).args[CHOOSE j \in at : TRUE].v

\* C1: when the expansion of a procedure has finished, the active symbol table has
\* exactly the names and values it had immediately before the expansion started, and
\* a statement of the main deck that follows sees only what the main deck has SET:
\* //S1 EXEC PGM=&P is emitted with PGM=M after // SET P=M and with &P left otherwise.
ProcedureScoping ==
    /\ scope.set => scope.after = scope.before
    /\ (pc = "parse" /\ MainDeck # <<>> /\ MainDeck[1] = cProcQ) =>
          \A i \in 1..Len(res) :
              (res[i].k = "STMT" /\ Len(res[i].org) = 1 /\ res[i].card.op = "EXEC") =>
                  res[i].card.args[1].v =
                      IF \E j \in 1..(res[i].org[1] - 1) : MainDeck[j] = cSetM
                      THEN <<"M">> ELSE RefP

\* A nested expansion whose body changed its table returns to a caller that has symbols.
ProcedureScopingWitness ==
    /\ scope.set /\ scope.inner # scope.before /\ scope.before # <<>>
    /\ Len(stack) >= 2
    /\ \E i \in 1..Len(scope.inner) : ~DictHas(scope.before, scope.inner[i].name)
                                      \/ DictGet(scope.before, scope.inner[i].name) # scope.inner[i].val

\* C2: a step assembled under a non-empty context stack has the label and the proc of
\* the top frame as final_step_name and final_proc_name and its own label as
\* final_proc_step_name; under an empty stack it has its own label, its PROC operand
\* (None if absent) and None.  //C2 EXEC Q,P=O on //Q1 EXEC PGM=&P is stored as one
\* step C2 of proc Q with proc step Q1 and program O.
StepNameResolution ==
    /\ \A i \in 1..Len(steps) :
          LET info == steps[i].step_info
              st   == StepContext(i)
          IN  IF st # <<>>
              THEN /\ info.final_step_name = st[Len(st)].label
                   /\ info.final_proc_name = st[Len(st)].proc
                   /\ info.final_proc_step_name = OwnLabel(i)
              ELSE /\ info.final_step_name = OwnLabel(i)
                   /\ info.final_proc_name = OwnProc(i)
                   /\ info.final_proc_step_name = None
    /\ (pc = "done" /\ MainDeck = <<cProcQ, cStepQ1, cPend, cCallQO>>) =>
          /\ Len(db.steps) = 1
          /\ db.steps[1].step_name = <<"C", "2">>
          /\ db.steps[1].proc_name = <<"Q">>
          /\ db.steps[1].proc_step_name = <<"Q", "1">>
          /\ db.steps[1].program_name = <<"O">>

\* Steps of both kinds are assembled: one inside an expansion, one in the main deck,
\* and one in the main deck that names a procedure, which was not found.
StepNameResolutionWitness ==
    /\ pc = "insert"
    /\ \E i \in 1..Len(steps) : StepContext(i) # <<>> /\ OwnLabel(i) # None
    /\ \E i \in 1..Len(steps) : StepContext(i) = <<>> /\ OwnProc(i) = None
    /\ \E i \in 1..Len(steps) : StepContext(i) = <<>> /\ OwnProc(i) # None

\* C3 as stated: a step assembled under two or more frames has the label and the proc
\* of the outermost frame, and its own label as proc-step name.
NestedNamingOutermost ==
    \A i \in 1..Len(steps) :
        Len(StepContext(i)) >= 2 =>
            /\ steps[i].step_info.final_step_name = StepContext(i)[1].label
            /\ steps[i].step_info.final_proc_name = StepContext(i)[1].proc
            /\ steps[i].step_info.final_proc_step_name = OwnLabel(i)

\* C3: a step assembled under two or more frames has the label and the proc of the
\* innermost frame, the one pushed last, and its own label as proc-step name.
NestedNamingInnermost ==
    \A i \in 1..Len(steps) :
        Len(StepContext(i)) >= 2 =>
            /\ steps[i].step_info.final_step_name = StepContext(i)[Len(StepContext(i))].label
            /\ steps[i].step_info.final_proc_name = StepContext(i)[Len(StepContext(i))].proc
            /\ steps[i].step_info.final_proc_step_name = OwnLabel(i)

\* A step under two frames that differ in label and in proc.
NestedNamingWitness ==
    \E i \in 1..Len(steps) :
        /\ Len(StepContext(i)) >= 2
        /\ StepContext(i)[1].label # StepContext(i)[Len(StepContext(i))].label
        /\ StepContext(i)[1].proc # StepContext(i)[Len(StepContext(i))].proc

\* The place of the nearest EXEC statement before place n of the stream, or 0.
NearestExec(n) ==
    LET before == {q \in 1..(n - 1) : results_list[q].k = "STMT" /\ results_list[q].card.op = "EXEC"}
    IN  IF before = {} THEN 0 ELSE Max(before)

\* C7: when process_results has returned, each DD record is in the DD list of exactly
\* one step, and that step is the one made from the nearest EXEC statement before the
\* DD in the stream; this also when statements of the stream failed to parse.
DDOwnership ==
    pc = "insert" =>
        /\ \A i \in 1..Len(steps) : \A d \in 1..Len(steps[i].dds) :
              steps[i].step_info.at = NearestExec(steps[i].dds[d].at)
        /\ \A i, j \in 1..Len(steps) : \A d \in 1..Len(steps[i].dds), e \in 1..Len(steps[j].dds) :
              steps[i].dds[d].at = steps[j].dds[e].at => i = j /\ d = e

\* The DD record behind a row of DATA_ALLOCATIONS, in a run on an empty database.
RowDD(row) == steps[row.step_id].dds[row.ds_id]

Labeled(dd) == dd.label # None /\ dd.label # <<>>

\* The row written before a row, for the same step.
RowBefore(row) ==
    CHOOSE r \in Range(db.allocs) : r.step_id = row.step_id /\ r.ds_id = row.ds_id - 1

\* C4: in the rows written for the DD list of a step, a labeled DD has its label as
\* dd_name and allocation_offset 1, and an unlabeled DD has the dd_name of the nearest
\* labeled DD before it in the step and the offset of the row before it plus one.
DDConcatenationNumbering ==
    pc = "done" =>
        /\ \A i \in 1..Len(steps) : \A d \in 1..Len(steps[i].dds) :
              \E r \in Range(db.allocs) : r.step_id = i /\ r.ds_id = d
        /\ \A k \in 1..Len(db.allocs) :
              LET row == db.allocs[k]
                  dds == steps[row.step_id].dds
              IN  IF Labeled(RowDD(row))
                  THEN row.dd_name = RowDD(row).label /\ row.allocation_offset = 1
                  ELSE /\ row.ds_id > 1
                       /\ row.allocation_offset = RowBefore(row).allocation_offset + 1
                       /\ LET named == {j \in 1..(row.ds_id - 1) : Labeled(dds[j])}
                          IN  named # {} /\ row.dd_name = dds[Max(named)].label

\* A labeled DD with two unlabeled followers is written with the offsets 1, 2, 3.
DDConcatenationWitness ==
    /\ pc = "done"
    /\ \E k \in 1..Len(db.allocs) :
          /\ db.allocs[k].allocation_offset = 3
          /\ ~Labeled(RowDD(db.allocs[k]))
          /\ db.allocs[k].dd_name = <<"I", "N">>

\* The delimiter that DLM= names: the two characters of its value, without the
\* apostrophes that may enclose them; <<>> without DLM.
NamedDlm(card) ==
    LET at == {i \in 1..Len(card.args) : card.args[i].k = "DLM"}
        v  == card.args[CHOOSE i \in at : TRUE].v
    IN  IF at = {} THEN <<>>
        ELSE IF Len(v) = 4 /\ v[1] = "'" /\ v[4] = "'" THEN SubSeq(v, 2, 3)
        ELSE v

\* The first card of the deck after the DD at place i that ends its payload, or one
\* past the deck.
Terminator(deck, i) ==
    LET dlm  == NamedDlm(deck[i])
        ends == {j \in (i + 1)..Len(deck) :
                    IF dlm # <<>> THEN StartsWith(RawHead(deck[j]), dlm)
                    ELSE RawHead(deck[j]) \in {<<"/", "/">>, <<"/", "*">>}}
    IN  IF ends = {} THEN Len(deck) + 1 ELSE CHOOSE j \in ends : \A k \in ends : j <= k

\* C6: after the in-stream DD of the deck, every card up to the terminator is emitted
\* as PAYLOAD; with DLM= the terminator is the first card that starts with the two
\* characters and it is consumed, neither emitted nor processed; without DLM it is the
\* first card that starts with // or /*, and it is processed as an ordinary card.
PayloadCapture ==
    (pc = "parse" /\ Len(MainDeck) >= 2 /\ MainDeck[2] \in DlmCards) =>
        LET t == Terminator(MainDeck, 2)
        IN  /\ \A j \in 3..(t - 1) :
                  \E i \in 1..Len(res) : res[i] = PayloadEl(MainDeck[j], <<j>>)
            /\ t <= Len(MainDeck) =>
                  /\ \A i \in 1..Len(res) : res[i].org = <<t>> => res[i].k # "PAYLOAD"
                  /\ NamedDlm(MainDeck[2]) # <<>> => \A i \in 1..Len(res) : res[i].org # <<t>>
                  /\ (NamedDlm(MainDeck[2]) = <<>> /\ ~IsDropped(MainDeck[t])) =>
                        \E i \in 1..Len(res) : res[i] = StmtEl(MainDeck[t], <<t>>)

RECURSIVE LexLeq(_, _)
LexLeq(p, q) ==
    IF p = <<>> THEN TRUE
    ELSE IF q = <<>> THEN FALSE
    ELSE IF Head(p) # Head(q) THEN Head(p) < Head(q)
    ELSE LexLeq(Tail(p), Tail(q))

\* The places of the EXEC statements of the stream that parse.
ExecPlaces ==
    {q \in 1..Len(results_list) :
        results_list[q].k = "STMT" /\ results_list[q].card.op = "EXEC" /\ Parses(results_list[q].card)}

\* C8: the steps are in the order of the EXEC statements of the emitted stream, the
\* rows of STEPS are written with step_id in that order, and in the stream what was
\* emitted for a procedure body or an INCLUDEd member stands at the place of the
\* invoking card: after everything emitted for earlier cards, before everything
\* emitted for later cards.
OutputOrdering ==
    /\ \A i, j \in 1..Len(res) : i < j => LexLeq(res[i].org, res[j].org)
    /\ \A i, j \in 1..Len(steps) : i < j => steps[i].step_info.at < steps[j].step_info.at
    /\ pc = "insert" => {steps[i].step_info.at : i \in 1..Len(steps)} = ExecPlaces
    /\ pc = "done" =>
          /\ Len(db.steps) = Len(steps)
          /\ \A k \in 1..Len(steps) :
                /\ db.steps[k].step_id = k
                /\ db.steps[k].step_name = steps[k].step_info.final_step_name
                /\ db.steps[k].proc_step_name = steps[k].step_info.final_proc_step_name
                /\ db.steps[k].program_name = steps[k].step_info.params.PGM

\* Steps before, inside and after a nested expansion are stored.
OutputOrderingWitness ==
    /\ pc = "done"
    /\ Len(db.steps) >= 3
    /\ \E i, j, k \in 1..Len(res) :
          /\ i < j /\ j < k
          /\ res[i].k = "STMT" /\ Len(res[i].org) = 1
          /\ res[j].k = "STMT" /\ Len(res[j].org) = 3
          /\ res[k].k = "STMT" /\ Len(res[k].org) = 1

-----------------------------------------------------------------------------
(* Properties of repeated inserts.                                         *)

\* 'X' and k as seven digits.
Padded(k) == [i \in 1..8 |-> IF i = 1 THEN "X" ELSE Digit((k \div (10 ^ (8 - i))) % 10)]

\* The step_id values that the committed calls before call c stored for its project.
StoredBefore(c) ==
    UNION {{db.calls[b].steps[k].step_id : k \in 1..Len(db.calls[b].steps)} :
              b \in {a \in 1..(c - 1) : db.calls[a].project_id = db.calls[c].project_id}}

\* C5: the step_id values of a project are strictly increasing in insertion order,
\* the first step of each insert has the maximum step_id stored for the project (or 0)
\* plus one, and the k-th step of each insert has relative_step 'X' and k as seven
\* digits.
StepNumbering ==
    /\ db.steps = Flatten([c \in 1..Len(db.calls) |-> db.calls[c].steps])
    /\ \A i, j \in 1..Len(db.steps) :
          (i < j /\ db.steps[i].project_id = db.steps[j].project_id) =>
              db.steps[i].step_id < db.steps[j].step_id
    /\ \A c \in 1..Len(db.calls) :
          LET call == db.calls[c]
              base == IF StoredBefore(c) = {} THEN 0 ELSE Max(StoredBefore(c))
          IN  \A k \in 1..Len(call.steps) :
                  /\ call.steps[k].project_id = call.project_id
                  /\ k = 1 => call.steps[k].step_id = base + 1
                  /\ call.steps[k].relative_step = Padded(k)

\* A second insert into a project that has steps, after an insert into another project.
StepNumberingWitness ==
    /\ Len(db.calls) = 3
    /\ db.calls[1].project_id = db.calls[3].project_id
    /\ db.calls[1].project_id # db.calls[2].project_id
    /\ Len(db.calls[1].steps) = 2 /\ Len(db.calls[2].steps) >= 1 /\ Len(db.calls[3].steps) = 2
    /\ db.calls[3].steps[1].step_id = 3
    /\ db.calls[3].steps[2].relative_step = <<"X", "0", "0", "0", "0", "0", "0", "2">>

-----------------------------------------------------------------------------
(* Properties of apply_symbolics.                                          *)

\* No value of the table holds an ampersand.
CleanValues(d) == \A i \in 1..Len(d) : "&" \notin Range(d[i].val)

\* Every ampersand of the text is directly followed by a name of the table.
AllRefsDefined(d, text) ==
    \A i \in 1..Len(text) :
        text[i] = "&" => \E k \in 1..Len(d) : StartsWith(SubSeq(text, i + 1, Len(text)), d[k].name)

\* The text holds no reference to a name of the table.
NoRefLeft(d, text) == \A k \in 1..Len(d) : ~Contains(text, <<"&">> \o d[k].name)

\* C9 as stated: substituting an already substituted statement changes nothing.
SubstitutionIdempotentAlways == pc = "sym2" => sym_twice = sym_once

\* C9: substituting an already substituted statement changes nothing when the first
\* substitution left no reference to a name of the table; it leaves none, and no
\* ampersand, when no value of the table holds an ampersand and every ampersand of the
\* statement is directly followed by a name of the table.
SubstitutionIdempotent ==
    pc = "sym2" =>
        /\ NoRefLeft(Table, sym_once) => sym_twice = sym_once
        /\ (CleanValues(Table) /\ AllRefsDefined(Table, sym_stmt)) =>
              /\ "&" \notin Range(sym_once)
              /\ sym_twice = sym_once

\* Two names, clean values, a statement with two references, all of them replaced.
SubstitutionIdempotentWitness ==
    /\ pc = "sym2"
    /\ Len(Table) = 2 /\ CleanValues(Table) /\ AllRefsDefined(Table, sym_stmt)
    /\ Cardinality({i \in 1..Len(sym_stmt) : sym_stmt[i] = "&"}) >= 2
    /\ sym_once # sym_stmt
    /\ sym_twice = sym_once

\* The table {A=1, ABC=9}, in either order of insertion.
IsA1ABC9 ==
    /\ Len(Table) = 2
    /\ DictHas(Table, <<"A">>) /\ DictGet(Table, <<"A">>) = <<"1">>
    /\ DictHas(Table, <<"A", "B", "C">>) /\ DictGet(Table, <<"A", "B", "C">>) = <<"9">>

\* C10: the names are processed from the longest to the shortest, so that, the values
\* holding no ampersand, &NAME is replaced by the value of NAME also when a shorter
\* name is a prefix of NAME; &NAME.. gives the value and a dot, &NAME. and &NAME give
\* the value.  With {A=1, ABC=9}: "&ABC &A" gives "9 1", "&A..BC" gives "1.BC",
\* "&ABC.X" gives "9X".
SubstitutionPrecedence ==
    /\ \A i, j \in 1..Len(SortedSyms(Table)) :
          i < j => Len(SortedSyms(Table)[i]) >= Len(SortedSyms(Table)[j])
    /\ Len(SortedSyms(Table)) = Len(Table)
    /\ Range(SortedSyms(Table)) = Range(DictKeys(Table))
    /\ pc \in {"sym1", "sym2"} =>
          /\ CleanValues(Table) =>
                \A k \in 1..Len(Table) :
                    LET ref == <<"&">> \o Table[k].name
                    IN  /\ sym_stmt = ref => sym_once = Table[k].val
                        /\ sym_stmt = ref \o <<".">> => sym_once = Table[k].val
                        /\ sym_stmt = ref \o <<".", ".">> => sym_once = Table[k].val \o <<".">>
                        /\ sym_stmt = ref \o <<".", "X">> => sym_once = Table[k].val \o <<"X">>
          /\ IsA1ABC9 =>
                /\ sym_stmt = <<"&", "A", "B", "C", " ", "&", "A">> => sym_once = <<"9", " ", "1">>
                /\ sym_stmt = <<"&", "A", ".", ".", "B", "C">> => sym_once = <<"1", ".", "B", "C">>
                /\ sym_stmt = <<"&", "A", "B", "C", ".", "X">> => sym_once = <<"9", "X">>

\* "&ABC &A" is substituted under the table {A=1, ABC=9} where A was set first.
SubstitutionPrecedenceWitness ==
    /\ pc = "sym1"
    /\ IsA1ABC9 /\ Table[1].name = <<"A">>
    /\ sym_stmt = <<"&", "A", "B", "C", " ", "&", "A">>
    /\ sym_once = <<"9", " ", "1">>

-----------------------------------------------------------------------------
(* Properties of a failed insert.                                          *)

\* C11: when insert_project_data has failed after inserting rows, none of the rows it
\* inserted is committed: STEPS and DATA_ALLOCATIONS hold what the committed calls
\* stored, the same as before the call.
PersistenceAtomicity ==
    pc = "failed" =>
        /\ db.steps = Flatten([c \in 1..Len(db.calls) |-> db.calls[c].steps])
        /\ \A k \in 1..Len(tx.steps) :
              \A j \in 1..Len(db.steps) :
                  ~(db.steps[j].project_id = tx.steps[k].project_id
                    /\ db.steps[j].step_id = tx.steps[k].step_id)
        /\ \A k \in 1..Len(tx.allocs) :
              \A j \in 1..Len(db.allocs) :
                  ~(db.allocs[j].project_id = tx.allocs[k].project_id
                    /\ db.allocs[j].step_id = tx.allocs[k].step_id)
        /\ \A j \in 1..Len(db.allocs) :
              \E c \in 1..Len(db.calls) : \E k \in 1..Len(db.calls[c].steps) :
                  /\ db.calls[c].steps[k].project_id = db.allocs[j].project_id
                  /\ db.calls[c].steps[k].step_id = db.allocs[j].step_id

\* An insert into a project with stored steps fails after two STEPS rows and one
\* DATA_ALLOCATIONS row.
PersistenceAtomicityWitness ==
    /\ pc = "failed"
    /\ Len(tx.steps) = 2 /\ Len(tx.allocs) = 1
    /\ \E j \in 1..Len(db.steps) : db.steps[j].project_id = tx.steps[1].project_id

-----------------------------------------------------------------------------
(* Properties of the rows of DATA_ALLOCATIONS.                             *)

\* The DD statement behind a row, and its DSN operand (None if it has none).
RowCard(row) == results_list[RowDD(row).at].card

CardDsn(card) ==
    LET at == {i \in 1..Len(card.args) : card.args[i].k = "DSN"}
    IN  IF at = {} THEN None ELSE card.args[Max(at)].v

CardHas(card, kinds) == \E i \in 1..Len(card.args) : card.args[i].k \in kinds

\* C12: a row of a DD that has a DSN operand has that DSN in the dsn column; a row of a
\* DD without DSN has (dummy) for DUMMY, (input stream) for * or DATA, (output stream)
\* for SYSOUT and (work_ds) otherwise.
SurrogateDsn ==
    pc = "done" =>
        \A k \in 1..Len(db.allocs) :
            LET card == RowCard(db.allocs[k])
            IN  db.allocs[k].dsn =
                    IF CardDsn(card) # None THEN CardDsn(card)
                    ELSE IF CardHas(card, {"DUMMY"}) THEN <<"(dummy)">>
                    ELSE IF CardHas(card, {"STAR", "DATA"}) THEN <<"(input stream)">>
                    ELSE IF CardHas(card, {"SYSOUT"}) THEN <<"(output stream)">>
                    ELSE <<"(work_ds)">>

-----------------------------------------------------------------------------
(* Properties of the reassembly of continued cards.                        *)

\* The text of an operand token and of an operand field.
ArgText(a) ==
    IF a.k \in {"POS", "TXT"} THEN a.v
    ELSE IF a.k = "STAR" THEN <<"*">>
    ELSE IF ~HasEq(a) THEN Chars(a.k)
    ELSE ArgName(a) \o <<"=">> \o a.v

RECURSIVE OperandText(_)
OperandText(args) ==
    IF args = <<>> THEN <<>>
    ELSE IF Len(args) = 1 THEN ArgText(args[1])
    ELSE ArgText(args[1]) \o <<",">> \o OperandText(Tail(args))

\* The text of a card after strip_jcl_comment: //label op operands, with the comma
\* that says that the operand field goes on.
CardText(card) ==
    <<"/", "/">> \o card.label \o <<" ">> \o Chars(card.op) \o <<" ">>
        \o OperandText(card.args) \o (IF card.cont THEN <<",">> ELSE <<>>)

\* The card that completes the statement begun at card i of the deck: the first card
\* from i on that is no comment and whose operand field ends without a comma.
RECURSIVE LastCardOf(_, _)
LastCardOf(deck, i) ==
    IF i > Len(deck) THEN i
    ELSE IF IsDropped(deck[i]) \/ deck[i].cont THEN LastCardOf(deck, i + 1)
    ELSE i

\* The operand texts of the cards after card i up to card j, comments left out, each
\* with its trailing comma.
RECURSIVE FollowingText(_, _, _)
FollowingText(deck, i, j) ==
    IF i >= j THEN <<>>
    ELSE (IF IsDropped(deck[i + 1]) THEN <<>>
          ELSE OperandText(deck[i + 1].args) \o (IF deck[i + 1].cont THEN <<",">> ELSE <<>>))
         \o FollowingText(deck, i + 1, j)

\* C13: a deck that begins with an EXEC PGM= card whose operand field ends with a
\* comma, followed by cards that go on and one that does not, gives exactly one
\* statement for these cards, and its text is the text of the first card directly
\* followed by the operand texts of the others.
ContinuationClosure ==
    (pc = "parse" /\ MainDeck # <<>> /\ MainDeck[1] = cExecComma) =>
        LET j  == LastCardOf(MainDeck, 1)
            at == {i \in 1..Len(res) : Len(res[i].org) = 1 /\ res[i].org[1] <= j}
        IN  /\ j <= Len(MainDeck)
            /\ Cardinality(at) = 1
            /\ \A i \in at :
                  /\ res[i].k = "STMT"
                  /\ CardText(res[i].card) = CardText(MainDeck[1]) \o FollowingText(MainDeck, 1, j)
                  /\ Len(res[i].card.args) =
                        Cardinality({c \in 1..j : ~IsDropped(MainDeck[c])})

\* Two cards that end with a comma, a comment between them, and a last card.
ContinuationClosureWitness ==
    /\ pc = "parse" /\ MainDeck # <<>> /\ MainDeck[1] = cExecComma
    /\ LastCardOf(MainDeck, 1) = 4
    /\ \E i \in 1..Len(res) :
          /\ res[i].org = <<4>>
          /\ CardText(res[i].card) =
                <<"/", "/", "S", "3", " ", "E", "X", "E", "C", " ", "P", "G", "M", "=", "A", ",",
                  "P", "A", "R", "M", "=", "B", ",", "T", "=", "5">>

-----------------------------------------------------------------------------
(* Properties of __main__.                                                 *)

\* The entry member is a readable member of the configured library.
EntryPresent == <<"L1", EntryMember>> \in DOMAIN files

\* C14: when the entry member cannot be resolved to a readable source, in either mode,
\* the run does nothing further: no insert is attempted and no PROJECTS row is written.
EntryUnresolvedSkips ==
    ~EntryPresent =>
        /\ pc \notin {"insert", "ready", "tx", "failed"}
        /\ ~tx.open
        /\ db.projects = <<>> /\ db.serial = 0

-----------------------------------------------------------------------------
(* Properties of the dispatch of EXEC statements.                          *)

\* C15: a statement //[label] EXEC PGM=name[,params], under every valid label and
\* without label, is in the emitted stream exactly once and unchanged; it is not
\* dropped as a job-admin or conditional statement and not expanded.
ProgramExecPassThrough ==
    (pc = "parse" /\ MainDeck \in LabelDecks) =>
        /\ Cardinality({i \in 1..Len(res) : res[i].org = <<1>>}) = 1
        /\ res # <<>> /\ res[1] = StmtEl(MainDeck[1], <<1>>)

-----------------------------------------------------------------------------
(* Properties of the expansion of a procedure.                             *)

\* The NAME=VALUE operands of a card, as entries of a symbol table.
Bindings(args) ==
    LET kw == SelectSeq(args, LAMBDA a : a.k = "KW")
    IN  [i \in 1..Len(kw) |-> [name |-> kw[i].n, val |-> kw[i].v]]

\* The header of the procedure that an expansion found.
HeaderOf(name) ==
    IF name \in DOMAIN procedure_map THEN procedure_map[name].header
    ELSE Head(files[ResolvePath(name)])

\* The expansion on top of the stack has just begun.
ExpansionBegins ==
    /\ pc = "pre" /\ Len(stack) >= 2
    /\ Top.kind = "proc" /\ Top.idx = 1 /\ Top.statements = <<>>

\* The EXEC statement that began the expansion on top of the stack.
InvokingExec == ApplyStmt(Top.entry, stack[Len(stack) - 1].lines[stack[Len(stack) - 1].idx - 1])

\* C16: the symbol table active for the body of a procedure is the table of the
\* caller, updated with every NAME=VALUE default of the PROC header and then with every
\* NAME=VALUE keyword after the procedure name on the EXEC card, for every procedure
\* name.
ProcedureBinding ==
    ExpansionBegins =>
        Table = DictUpdate(DictUpdate(Top.entry, Bindings(HeaderOf(Top.proc_name).args)),
                           Bindings(InvokingExec.args))

\* The streams under construction and the stream that preprocessing returned.
Streams == {stack[k].statements : k \in 1..Len(stack)} \cup {res}

IsPrefixOf(p, q) == Len(p) <= Len(q) /\ SubSeq(q, 1, Len(p)) = p

\* In a stream the sentinels of an expansion enclose exactly what was emitted for the
\* body, and nothing was emitted for the invoking card itself.
Enclosed(S) ==
    \A i \in 1..Len(S) :
        S[i].k = "PROC_START" =>
            \E e \in (i + 1)..Len(S) :
                /\ S[e].k = "PROC_END"
                /\ Len(S[e].org) = Len(S[i].org) + 1 /\ IsPrefixOf(S[i].org, S[e].org)
                /\ \A m \in 1..Len(S) :
                      (m # i /\ IsPrefixOf(S[i].org, S[m].org)) =>
                          (i < m /\ m <= e /\ Len(S[m].org) > Len(S[i].org))

\* expand_procedure has found the procedure of the statement at hand.
Located ==
    /\ Complete /\ Dispatch(StmtNow) = "exec" /\ Len(stack) < RecursionLimit
    /\ ProcData(ExecMatch(StmtNow).name).found

\* The preprocessing of the body of a procedure returns.
BodyDone == pc = "pre" /\ stack # <<>> /\ Top.kind = "proc" /\ Top.idx > Len(Top.lines)

Unresolved ==
    /\ Complete /\ ExecMatch(StmtNow).ok /\ ~ExecMatch(StmtNow).pgm
    /\ Dispatch(StmtNow) \in {"exec", "emit"}
    /\ Dispatch(StmtNow) = "exec" => Len(stack) < RecursionLimit
    /\ ExecMatch(StmtNow).name \notin DOMAIN procedure_map
    /\ \A k \in 1..Len(lib_paths) : <<lib_paths[k], ExecMatch(StmtNow).name>> \notin DOMAIN files

Assignments(args) ==
    LET b == Bindings(args)
    IN  [i \in 1..Len(b) |-> [name |-> b[i].name, val |-> StripQuotes(b[i].val)]]

\* C19: after SET N1=V1,...,Nk=Vk is dispatched, the symbol table maps every Ni to Vi,
\* with the surrounding quotes stripped, earlier values are overwritten, and no other
\* symbol changes.
SetAssignsAll ==
    [][(Complete /\ Dispatch(StmtNow) = "set") =>
           /\ symbol_table' = symbol_table
           /\ symtabs'[symbol_table] = DictUpdate(Table, Assignments(StmtNow.args))]_vars

\* The roots that the statement lists in ORDER=(...), in their order.
OrderRoots(s) ==
    LET o == SelectSeq(s.args, LAMBDA a : a.k = "ORDER")
    IN  IF o = <<>> THEN <<>> ELSE o[1].v

\* The names of the members of the libraries.
MemberNames == {p[2] : p \in DOMAIN files}

Least(S) == CHOOSE x \in S : \A y \in S : x <= y

\* The places of the library list at which the member exists.
RootsWith(member) == {k \in 1..Len(lib_paths) : <<lib_paths[k], member>> \in DOMAIN files}

\* C20: a JCLLIB statement puts its roots, in their listed order, before the library
\* list as it was; no other statement and no return from a procedure expansion or an
\* INCLUDE changes the list, so the initial roots stay at its tail; and in filesystem
\* mode resolve_path returns the candidate under the first root of the list at which
\* the member exists.
LibraryList ==
    /\ [][IF Complete /\ Dispatch(StmtNow) = "jcllib"
          THEN lib_paths' = OrderRoots(StmtNow) \o lib_paths
          ELSE lib_paths' = lib_paths]_vars
    /\ [](lib_paths # <<>> /\ lib_paths[Len(lib_paths)] = "L1")
    /\ [](system_type = "LWM" =>
             \A m \in MemberNames \cup {<<"N", "O", "P", "R", "O", "C">>} :
                 ResolvePath(m) = IF RootsWith(m) = {} THEN None
                                  ELSE <<lib_paths[Least(RootsWith(m))], m>>)

\* Two JCLLIB statements, the second inside an INCLUDEd member, have built the list;
\* the procedure that exists under two roots was taken from the first of them.
LibraryListWitness ==
    /\ pc = "parse" /\ system_type = "LWM"
    /\ lib_paths = <<"L2", "L3", "L3", "L1">>
    /\ RootsWith(<<"R">>) = {1, 4}
    /\ \E i \in 1..Len(res) : res[i].k = "STMT" /\ res[i].card = cStepR2

-----------------------------------------------------------------------------
(* Properties of the assembly of steps.                                    *)

\* process_results is at a statement of the stream that fails to parse.
ParseFails == pc = "asm" /\ pos <= Len(results_list)
                 /\ results_list[pos].k = "STMT" /\ ~Parses(results_list[pos].card)

\* C21: a statement that fails to parse adds no step and no DD, leaves the step list,
\* the current step and the context stack as they were, and process_results goes on
\* with the next element: when it returns, every element was consumed and every EXEC
\* statement of the stream that parses has its step.
LocalParseFailure ==
    /\ [][ParseFails =>
              /\ steps' = steps /\ current_step' = current_step
              /\ proc_stack' = proc_stack
              /\ pc' = "asm" /\ pos' = pos + 1 /\ results_list' = results_list]_vars
    /\ [](pc = "insert" =>
              /\ pos = Len(results_list) + 1
              /\ \A q \in ExecPlaces : \E i \in 1..Len(steps) : steps[i].step_info.at = q)

\* A statement failed to parse between two steps; the step after it has a DD.
LocalParseFailureWitness ==
    /\ pc = "insert"
    /\ \E q \in 1..Len(results_list), i, j \in 1..Len(steps) :
          /\ results_list[q].k = "STMT" /\ ~Parses(results_list[q].card)
          /\ steps[i].step_info.at < q /\ q < steps[j].step_info.at
          /\ steps[j].dds # <<>>

\* The place of the card that introduced the payload line at place p of the stream:
\* the nearest element before it that is no payload line.
Introducer(p) == Max({q \in 0..(p - 1) : q = 0 \/ results_list[q].k # "PAYLOAD"})

\* The payload lines of the stream that the statement at place q introduced, in order.
PayloadOf(q) ==
    LET at == {p \in 1..Len(results_list) : results_list[p].k = "PAYLOAD" /\ Introducer(p) = q}
    IN  [n \in 1..Cardinality(at) |->
            results_list[CHOOSE p \in at : Cardinality({r \in at : r <= p}) = n].card]

\* C22: the payload list of a DD is empty unless the DD is in-stream, and then it holds,
\* in stream order, the payload lines that the card of that DD introduced in the stream,
\* or none of them; this also when the introducing DD card failed to parse or had no
\* current step.
PayloadOwnership ==
    pc = "insert" =>
        \A i \in 1..Len(steps) : \A d \in 1..Len(steps[i].dds) :
            LET dd == steps[i].dds[d]
            IN  dd.payload # <<>> =>
                    /\ dd.params.INSTREAM
                    /\ dd.payload = PayloadOf(dd.at)

\* The procedure expansions that enclose the element at place p of the stream: the
\* PROC_START elements emitted for an EXEC card on the path to the card of the element.
Enclosing(p) ==
    {q \in 1..Len(results_list) :
        /\ results_list[q].k = "PROC_START"
        /\ IsPrefixOf(results_list[q].org, results_list[p].org)
        /\ Len(results_list[q].org) < Len(results_list[p].org)}

CountOf(S, kind, n) == Cardinality({q \in 1..n : S[q].k = kind})

\* C23: in the stream that the preprocessor returns the PROC_START and PROC_END
\* sentinels are properly nested and equal in number; while process_results consumes it
\* the depth of the stack is the number of procedure expansions that enclose the
\* current statement, a PROC_END never meets an empty stack, and the stack is empty
\* when the stream ends.
BalancedContext ==
    pc = "asm" =>
        /\ \A n \in 0..Len(results_list) :
              CountOf(results_list, "PROC_END", n) <= CountOf(results_list, "PROC_START", n)
        /\ CountOf(results_list, "PROC_END", Len(results_list))
              = CountOf(results_list, "PROC_START", Len(results_list))
        /\ (HasEl /\ El.k \in {"STMT", "PAYLOAD"}) => Len(proc_stack) = Cardinality(Enclosing(pos))
        /\ (HasEl /\ El.k = "PROC_END") => proc_stack # <<>>
        /\ pos > Len(results_list) => proc_stack = <<>>

-----------------------------------------------------------------------------
(* Termination.                                                            *)

\* While preprocessing there is an activation of process_line_list, and it is at its
\* end (it returns), at a card that is skipped or continued, or at a complete
\* statement, which the dispatch sends to exactly one branch.
NeverStuck ==
    pc = "pre" =>
        /\ stack # <<>>
        /\ \/ Top.idx > Len(Top.lines)
           \/ HasLine /\ (IsDropped(Line) \/ EndsWithComma(Line, Top.cont))
           \/ Complete /\ Dispatch(StmtNow) \in
                  {"proc", "jcllib", "set", "drop", "include", "exec", "instream", "emit"}

\* C24: preprocess_file of the entry member terminates and returns a statement list,
\* also when a procedure body invokes the procedure being expanded, directly or
\* through another procedure, or an INCLUDEd member includes itself; the depth of the
\* expansion never passes the limit.
PreprocessingTerminates ==
    /\ [](Len(stack) <= RecursionLimit)
    /\ []NeverStuck
    /\ (pc = "pre") ~> (pc = "parse" /\ stack = <<>>)

\* The run on a deck with an INCLUDE of a member that includes itself and then a call
\* of the procedure PA, which invokes PB, which invokes PA, has returned: the INCLUDE
\* came back at the limit and the expansion ended in the handler of preprocess_file.
PreprocessingTerminatesWitness ==
    /\ pc = "parse" /\ stack = <<>>
    /\ MainDeck = <<cExecA, cIncludeSelf, cCallPA, cExecA>>
    /\ res = <<>>

-----------------------------------------------------------------------------
(* Properties of the rows of DATA_ALLOCATIONS.                             *)

\* The rows of DATA_ALLOCATIONS that insert_project_data has written: the committed
\* ones and those of the transaction, open or aborted.
WrittenAllocs == Range(db.allocs) \cup Range(tx.allocs)

\* C25: every row of DATA_ALLOCATIONS that insert_project_data writes has a dd_name
\* that is not null and is the label of a labeled DD of the same step, the nearest one
\* at or before the DD of the row; this for every DD list of the assembler, also for
\* a step whose first DD is unlabeled.
AllocationNamePresent ==
    \A r \in WrittenAllocs :
        /\ r.dd_name # None /\ r.dd_name # <<>>
        /\ r.step_id \in 1..Len(steps) /\ r.ds_id \in 1..Len(steps[r.step_id].dds)
        /\ \E d \in 1..r.ds_id :
              /\ Labeled(steps[r.step_id].dds[d])
              /\ steps[r.step_id].dds[d].label = r.dd_name
              /\ \A e \in (d + 1)..r.ds_id : ~Labeled(steps[r.step_id].dds[e])

\* The rows of a first step were written, then a step whose first DD is unlabeled made
\* the database refuse its row: no row of that step was written.
AllocationNamePresentWitness ==
    /\ pc = "failed" /\ Len(steps) = 2
    /\ steps[2].dds # <<>> /\ ~Labeled(steps[2].dds[1])
    /\ Len(tx.allocs) = 2 /\ tx.allocs[2].dd_name = <<"I", "N">>
    /\ \A r \in WrittenAllocs : r.step_id = 1

====
